---- MODULE Spec2Model ----
(***************************************************************************)
(* Model of the SID energy-cap valuation component                         *)
(* (src/components/EnergyCapBTCModel.tsx), of the /api/history handler     *)
(* that feeds it (src/unnamed/part_003) and of the /api/cpi handler with   *)
(* its in-memory cache (src/pages/api/cpi.ts).                             *)
(*                                                                         *)
(* Calendar dates are ISO strings "YYYY-MM-DD" in the source; here an ISO  *)
(* string is the record [y, m, d] of its three fields, and a Date object   *)
(* is its time value counted in whole days since 1970-01-01 UTC (getTime() *)
(* divided by 86400000; every Date of the component is a UTC midnight).    *)
(***************************************************************************)
EXTENDS Integers, Sequences, FiniteSets, TLC

VARIABLES
    year, month, day,        \* useState year / month / day (target date)
    preset,                  \* useState preset
    capSharePct,             \* useState capSharePct (a Number)
    feesPct,                 \* useState feesPct
    elecBaseUSDkWh,          \* useState elecBaseUSDkWh
    elecDriftPct,            \* useState elecDriftPct
    cpiPct,                  \* useState cpiPct
    overheadPhi,             \* useState overheadPhi
    histByYear,              \* useState histByYear (null or the byYear object)
    histLastYear,            \* useState histLastYear
    histLastShare,           \* useState histLastShare
    pc,                      \* "idle" before the call, "done" after it
    t,                       \* subsidyOnDate: the local t = new Date(iso).getTime()
    s,                       \* subsidyOnDate: the returned subsidy
    r,                       \* priceFromEnergyCap: the returned record
    showReal,                \* useState showReal
    tzWest,                  \* the local time zone is behind UTC (browser setting)
    hooks,                   \* the memoised callbacks of the last render (null before the first)
    seriesFull,              \* useMemo seriesFull: the chart series
    cpiYoYLatest,            \* useState cpiYoYLatest
    feeSharePctLive,         \* useState feeSharePctLive
    cpiCache,                \* /api/cpi: the module variable _cache
    cpiClock,                \* /api/cpi: Date.now() of the server process, in ms
    cpiKey,                  \* /api/cpi: process.env.BLS_API_KEY is set
    cpiReqs,                 \* /api/cpi: the requests waiting for the BLS answer
    cpiResp,                 \* /api/cpi: the response sent last, with what its request saw
    cpiFetched,              \* /api/cpi: history, a BLS fetch has succeeded in this process
    feesQuery,               \* /api/fees: req.query.n of the request
    feesSample,              \* /api/fees: the local sample (null before the request)
    feesBlocks,              \* /api/fees: the local blocks
    feesFromHash,            \* /api/fees: the local fromHash
    feesFetches,             \* /api/fees: history, the calls of fetchBlocks made
    feesPc,                  \* /api/fees: "idle", "paging" (awaiting fetchBlocks), "done"
    feesResp,                \* /api/fees: the response sent (null before)
    diffRes,                 \* /api/difficulty: the answer of blockchain.info (null while awaited)
    heightRes,               \* /api/difficulty: the answer of mempool.space (null while awaited)
    diffPc,                  \* /api/difficulty: "idle", "awaiting" (Promise.all), "done"
    diffResp,                \* /api/difficulty: the response sent (null before)
    liveMounted,             \* live cards: the mount effect has run (the interval is set)
    liveSyncing,             \* live cards: useState cpiSyncing, hashSyncing, diffSyncing, feeSyncing, elecSyncing
    liveErr,                 \* live cards: useState cpiError, hashErr, diffErr, feeErr, elecErr
    liveInFlight             \* live cards: history, the calls of each fetcher awaiting their answer

dials == <<capSharePct, feesPct, elecBaseUSDkWh, elecDriftPct, cpiPct, overheadPhi>>
hist == <<histByYear, histLastYear, histLastShare>>
ui == <<showReal, tzWest, hooks, seriesFull, cpiYoYLatest, feeSharePctLive>>
cpi == <<cpiCache, cpiClock, cpiKey, cpiReqs, cpiResp, cpiFetched>>
fees == <<feesQuery, feesSample, feesBlocks, feesFromHash, feesFetches, feesPc, feesResp>>
difficultyApi == <<diffRes, heightRes, diffPc, diffResp>>
live == <<liveMounted, liveSyncing, liveErr, liveInFlight>>
others == <<fees, difficultyApi, live>>
vars == <<year, month, day, preset, dials, hist, pc, t, s, r, ui, cpi, others>>

\* ------------------------------------------------------------------ bounds
MinYear == 2007
MaxYear == 2130
ShareMaxYear == 2090

\* --------------------------------------------------------------- calendar
\* ECMAScript DaysInYear / DayFromYear / MakeDay, as used by new Date(iso).
IsLeap(y) == (y % 4 = 0) /\ ((y % 100 # 0) \/ (y % 400 = 0))

DaysInMonth(y, m) ==
    CASE m \in {1, 3, 5, 7, 8, 10, 12} -> 31
      [] m \in {4, 6, 9, 11} -> 30
      [] OTHER -> IF IsLeap(y) THEN 29 ELSE 28

\* floor division that is also right for negative numerators
FloorDiv(a, b) == IF a >= 0 THEN a \div b ELSE -((-a + b - 1) \div b)

DayFromYear(y) ==
    365 * (y - 1970) + FloorDiv(y - 1969, 4) - FloorDiv(y - 1901, 100)
        + FloorDiv(y - 1601, 400)

RECURSIVE DaysBeforeMonth(_, _)
DaysBeforeMonth(y, m) ==
    IF m <= 1 THEN 0 ELSE DaysBeforeMonth(y, m - 1) + DaysInMonth(y, m - 1)

\* MakeDay(year, month, date): the day number; a date past the end of the
\* month runs over into the next one.
MakeDay(y, m, d) == DayFromYear(y) + DaysBeforeMonth(y, m) + d - 1

RECURSIVE YearFromDays(_, _)
YearFromDays(n, y) ==
    IF DayFromYear(y) > n THEN YearFromDays(n, y - 1)
    ELSE IF DayFromYear(y + 1) <= n THEN YearFromDays(n, y + 1)
    ELSE y

RECURSIVE MonthFromDayInYear(_, _, _)
MonthFromDayInYear(y, k, m) ==
    IF k < DaysBeforeMonth(y, m + 1) THEN m ELSE MonthFromDayInYear(y, k, m + 1)

Iso(y, m, d) == [y |-> y, m |-> m, d |-> d]

\* Date.prototype.toISOString().slice(0,10): the UTC calendar date of a day number.
ToISODate(n) ==
    LET y == YearFromDays(n, 1970 + FloorDiv(n, 365))
        k == n - DayFromYear(y)
        m == MonthFromDayInYear(y, k, 1)
    IN  Iso(y, m, k - DaysBeforeMonth(y, m) + 1)

\* A time value: a day number, or NaN (Invalid Date).
Time(n) == [ok |-> TRUE, days |-> n]
NaNTime == [ok |-> FALSE, days |-> 0]

IsCalendarDate(iso) ==
    /\ iso.m \in 1..12
    /\ iso.d \in 1..DaysInMonth(iso.y, iso.m)

\* new Date("YYYY-MM-DD").getTime(). A day of the month that the month does not
\* have (02-30, 04-31) is read differently by different engines: V8 lets it run
\* over into the next month, others give Invalid Date. Both outcomes are kept.
ParseDate(iso) ==
    IF iso.m \notin 1..12 \/ iso.d \notin 1..31 THEN {NaNTime}
    ELSE IF IsCalendarDate(iso) THEN {Time(MakeDay(iso.y, iso.m, iso.d))}
    ELSE {NaNTime, Time(MakeDay(iso.y, iso.m, iso.d))}

\* The parse of a string that is a calendar date (the era table's own strings).
DateOf(iso) == Time(MakeDay(iso.y, iso.m, iso.d))

\* new Date(iso).getUTCFullYear() of a parsed time value.
GetUTCFullYear(tv) == ToISODate(tv.days).y

\* mutant of TimeGe: the comparison written t > ts
TimeGt(a, b) == a.ok /\ b.ok /\ a.days > b.days

\* t >= ts on time values: false when either side is NaN.
TimeGe(a, b) == a.ok /\ b.ok /\ a.days >= b.days

\* ----------------------------------------------------------------- subsidy
\* A subsidy is a JS Number that is 50 divided by a power of two. It is kept
\* exactly, as an integer count of units of 50 * 2^-28 BTC, so that s / 2 is
\* exact for the 28 halvings of the table, as it is in binary floating point.
BTC50 == 2^28
Half(x) == x \div 2

KNOWN_ERAS == <<
    [start |-> Iso(2009, 1, 3),   subsidy |-> BTC50],
    [start |-> Iso(2012, 11, 28), subsidy |-> BTC50 \div 2],
    [start |-> Iso(2016, 7, 9),   subsidy |-> BTC50 \div 4],
    [start |-> Iso(2020, 5, 11),  subsidy |-> BTC50 \div 8],
    [start |-> Iso(2024, 4, 20),  subsidy |-> BTC50 \div 16] >>

\* mutant of SetFullYearPlus4: four years taken as 4 * 365 days
PlusFourTimes365Days(n) == n + 4 * 365

\* nd = new Date(d); nd.setFullYear(nd.getFullYear() + 4): same month and day
\* of the month, four years on (MakeDay runs a 29 February over into March).
SetFullYearPlus4(n) ==
    LET c == ToISODate(n) IN MakeDay(c.y + 4, c.m, c.d)

\* mutant of genLoop: the era is pushed before the subsidy is halved
RECURSIVE genLoopPushBeforeHalving(_, _, _, _, _)
genLoopPushBeforeHalving(d, sub, i, n, out) ==
    IF i >= n THEN out
    ELSE LET nd == SetFullYearPlus4(d)
         IN  genLoopPushBeforeHalving(nd, Half(sub), i + 1, n,
                     Append(out, [start |-> ToISODate(nd), subsidy |-> sub]))

RECURSIVE genLoop(_, _, _, _, _)
genLoop(d, sub, i, n, out) ==
    IF i >= n THEN out
    ELSE LET nd == SetFullYearPlus4(d)
             s2 == Half(sub)
         IN  genLoop(nd, s2, i + 1, n,
                     Append(out, [start |-> ToISODate(nd), subsidy |-> s2]))

genFutureEras(startISO, s0, n) ==
    genLoop(DateOf(startISO).days, s0, 0, n, <<>>)

ALL_ERAS == KNOWN_ERAS \o genFutureEras(Iso(2024, 4, 20), BTC50 \div 16, 24)

RECURSIVE subsidyLoop(_, _, _)
subsidyLoop(tv, i, sub) ==
    IF i > Len(ALL_ERAS) THEN sub
    ELSE IF TimeGe(tv, DateOf(ALL_ERAS[i].start))
         THEN subsidyLoop(tv, i + 1, ALL_ERAS[i].subsidy)
         ELSE sub

\* mutant of subsidyOfTime: the running subsidy starts at 0, not at ALL_ERAS[0].subsidy
subsidyOfTimeFromZero(tv) == subsidyLoop(tv, 1, 0)

\* subsidyOnDate, from the parsed time value t on.
subsidyOfTime(tv) == subsidyLoop(tv, 1, ALL_ERAS[1].subsidy)

\* targetISO: `${year}-${mm}-${dd}`
targetISO == Iso(year, month, day)

\* -------------------------------------------------------------- JS Numbers
\* A Number is kept as a decimal floating-point value of 8 significant digits,
\* sign * m * 10^e with m = 0 or 10^7 <= m < 10^8, or as NaN or +-Infinity.
\* Every arithmetic result is cut to 8 digits (the double of the source keeps
\* about 16), so a sum, product or quotient is exact to a relative 10^-7.
MantLo == 10^7
MantHi == 10^8
Limb == 10^4

Num(sg, m, e) == [k |-> "num", s |-> sg, m |-> m, e |-> e]
Zero == Num(1, 0, 0)
NaN == [k |-> "nan", s |-> 1, m |-> 0, e |-> 0]
Infinity(sg) == [k |-> "inf", s |-> sg, m |-> 0, e |-> 0]

RECURSIVE Norm(_, _, _)
Norm(sg, m, e) ==
    IF m = 0 THEN Zero
    ELSE IF m >= MantHi THEN Norm(sg, m \div 10, e + 1)
    ELSE IF m < MantLo THEN Norm(sg, m * 10, e - 1)
    ELSE Num(sg, m, e)

\* The literal n * 10^e, and the Number of an integer.
Dec(n, e) == IF n < 0 THEN Norm(-1, -n, e) ELSE Norm(1, n, e)
FromInt(n) == Dec(n, 0)
One == FromInt(1)

\* isFinite(x)
IsFinite(a) == a.k = "num"
IsZero(a) == a.k = "num" /\ a.m = 0

Neg(a) == IF a.k = "nan" \/ IsZero(a) THEN a ELSE [a EXCEPT !.s = -a.s]

MagLt(a, b) ==
    IF b.m = 0 THEN FALSE
    ELSE IF a.m = 0 THEN TRUE
    ELSE a.e < b.e \/ (a.e = b.e /\ a.m < b.m)

\* a < b, a <= b, a > b, a >= b: false when an operand is NaN.
Lt(a, b) ==
    IF a.k = "nan" \/ b.k = "nan" THEN FALSE
    ELSE IF a.k = "inf" THEN a.s = -1 /\ ~(b.k = "inf" /\ b.s = -1)
    ELSE IF b.k = "inf" THEN b.s = 1
    ELSE IF a.s # b.s THEN a.s = -1
    ELSE IF a.s = 1 THEN MagLt(a, b) ELSE MagLt(b, a)
Le(a, b) == a.k # "nan" /\ b.k # "nan" /\ (a = b \/ Lt(a, b))
Gt(a, b) == Lt(b, a)
Ge(a, b) == Le(b, a)

\* Math.max(a, b), Math.min(a, b): NaN when an operand is NaN.
MathMax(a, b) == IF a.k = "nan" \/ b.k = "nan" THEN NaN ELSE IF Lt(a, b) THEN b ELSE a
MathMin(a, b) == IF a.k = "nan" \/ b.k = "nan" THEN NaN ELSE IF Lt(b, a) THEN b ELSE a

\* a + b, with one guard digit.
AddNum(a, b) ==
    IF a.m = 0 THEN b
    ELSE IF b.m = 0 THEN a
    ELSE LET big == IF a.e >= b.e THEN a ELSE b
             sml == IF a.e >= b.e THEN b ELSE a
             diff == big.e - sml.e
             bm == big.m * 10
             sm == IF diff > 9 THEN 0 ELSE (sml.m * 10) \div (10^diff)
         IN  IF big.s = sml.s THEN Norm(big.s, bm + sm, big.e - 1)
             ELSE IF bm >= sm THEN Norm(big.s, bm - sm, big.e - 1)
             ELSE Norm(sml.s, sm - bm, big.e - 1)

Add(a, b) ==
    IF a.k = "nan" \/ b.k = "nan" THEN NaN
    ELSE IF a.k = "inf" THEN (IF b.k = "inf" /\ b.s # a.s THEN NaN ELSE a)
    ELSE IF b.k = "inf" THEN b
    ELSE AddNum(a, b)

Sub(a, b) == Add(a, Neg(b))

\* a * b: the 16-digit product of the mantissas, cut to 8 digits.
MulNum(a, b) ==
    IF a.m = 0 \/ b.m = 0 THEN Zero
    ELSE LET ah == a.m \div Limb
             al == a.m % Limb
             bh == b.m \div Limb
             bl == b.m % Limb
             hi == ah * bh
             mid == ah * bl + al * bh + (al * bl) \div Limb
             q8 == hi + mid \div Limb
         IN  IF q8 >= MantLo THEN Num(a.s * b.s, q8, a.e + b.e + 8)
             ELSE Num(a.s * b.s, hi * 10 + mid \div (Limb \div 10), a.e + b.e + 7)

Mul(a, b) ==
    IF a.k = "nan" \/ b.k = "nan" THEN NaN
    ELSE IF a.k = "inf" \/ b.k = "inf"
         THEN (IF IsZero(a) \/ IsZero(b) THEN NaN ELSE Infinity(a.s * b.s))
    ELSE MulNum(a, b)

RECURSIVE LongDiv(_, _, _, _)
LongDiv(rem, d, n, acc) ==
    IF n = 0 THEN acc
    ELSE LongDiv((rem % d) * 10, d, n - 1, acc * 10 + rem \div d)

\* a / b: x / 0 is +-Infinity, 0 / 0 is NaN (no exception in JS).
Div(a, b) ==
    IF a.k = "nan" \/ b.k = "nan" THEN NaN
    ELSE IF a.k = "inf" THEN (IF b.k = "inf" THEN NaN ELSE Infinity(a.s * b.s))
    ELSE IF b.k = "inf" THEN Zero
    ELSE IF b.m = 0 THEN (IF a.m = 0 THEN NaN ELSE Infinity(a.s * b.s))
    ELSE IF a.m = 0 THEN Zero
    ELSE Norm(a.s * b.s, LongDiv(a.m, b.m, 9, 0), a.e - b.e - 8)

\* The integer part of a Number of small magnitude.
Trunc(a) ==
    IF a.m = 0 THEN 0
    ELSE IF a.e >= 0 THEN a.s * a.m * 10^a.e
    ELSE IF a.e < -8 THEN 0
    ELSE a.s * (a.m \div 10^(-a.e))

\* Number(x.toFixed(n)): x rounded to n decimals, halves away from zero.
ToFixed(a, n) ==
    IF a.k # "num" THEN a
    ELSE LET drop == -(a.e + n)
         IN  IF drop <= 0 THEN a
             ELSE IF drop > 8 THEN Zero
             ELSE LET q == (a.m + (10^drop) \div 2) \div (10^drop)
                  IN  IF q = 0 THEN Zero ELSE Norm(a.s, q, -n)

LN10 == Dec(23025851, -7)
LN2 == Dec(69314718, -8)

\* 1 + q/1 (1 + q/2 (1 + ... (1 + q/8))), from the innermost bracket out:
\* acc is the bracket that q / (k + 1) multiplies.
RECURSIVE ExpHorner(_, _, _)
ExpHorner(q, k, acc) ==
    IF k = 0 \/ acc.k # "num" THEN acc
    ELSE ExpHorner(q, k - 1, Add(One, Mul(Div(q, FromInt(k)), acc)))

Sq(a) == Mul(a, a)

\* Math.exp(x): x = n ln10 + 16 q, e^x = 10^n (e^q)^16, e^q by its Taylor series.
MathExp(a) ==
    IF a.k = "nan" THEN NaN
    ELSE IF a.k = "inf" THEN (IF a.s = 1 THEN a ELSE Zero)
    ELSE IF a.m = 0 THEN One
    ELSE IF a.e > -5 THEN (IF a.s = 1 THEN Infinity(1) ELSE Zero)
    ELSE LET n == Trunc(Div(a, LN10))
             rr == Sub(a, Mul(FromInt(n), LN10))
             e1 == ExpHorner(Div(rr, FromInt(16)), 8, One)
             e16 == Sq(Sq(Sq(Sq(e1))))
         IN  IF n > 308 THEN Infinity(1)
             ELSE IF n < -323 THEN Zero
             ELSE [e16 EXCEPT !.e = @ + n]

\* 1/1 + u2 (1/3 + u2 (1/5 + ... + u2 / 15)), from the innermost bracket
\* out: acc is the bracket that follows 1/k.
RECURSIVE AtanhHorner(_, _, _)
AtanhHorner(u2, k, acc) ==
    IF k < 1 \/ acc.k # "num" THEN acc
    ELSE AtanhHorner(u2, k - 2, Add(Div(One, FromInt(k)), Mul(u2, acc)))

\* ln f for 3/4 <= f < 3/2: 2 atanh((f - 1) / (f + 1)).
LogNearOne(f) ==
    LET u == Div(Sub(f, One), Add(f, One))
    IN  Mul(Mul(FromInt(2), u), AtanhHorner(Sq(u), 13, Div(One, FromInt(15))))

RECURSIVE LogDoubling(_, _)
LogDoubling(f, j) ==
    IF Lt(f, Dec(75, -2)) THEN LogDoubling(Mul(f, FromInt(2)), j + 1)
    ELSE Sub(LogNearOne(f), Mul(FromInt(j), LN2))

\* Math.log(x): NaN below 0, -Infinity at 0; x = f * 10^n with 0.1 <= f < 1.
MathLog(a) ==
    IF a.k = "nan" THEN NaN
    ELSE IF a.k = "inf" THEN (IF a.s = 1 THEN a ELSE NaN)
    ELSE IF a.m = 0 THEN Infinity(-1)
    ELSE IF a.s = -1 THEN NaN
    ELSE IF Ge(a, Dec(75, -2)) /\ Lt(a, Dec(15, -1)) THEN LogNearOne(a)
    ELSE Add(Mul(FromInt(a.e + 8), LN10), LogDoubling(Num(1, a.m, -8), 0))

\* --------------------------------------------------------------- valuation
CONFIG == [ baseDateISO |-> Iso(2025, 10, 1),
            worldElecBaseTWh2024 |-> FromInt(30000),
            worldElecGrowth |-> Dec(25, -3) ]

\* mutant of PRESETS: the markups of Bearish and Bullish have changed places
PRESETSMarkupsSwapped ==
    [ Bearish |-> [capUtilMultiplier |-> Dec(7, -1), elecPriceMultiplier |-> Dec(844, -3), markup |-> FromInt(2)],
      Base    |-> [capUtilMultiplier |-> One,        elecPriceMultiplier |-> One,          markup |-> Dec(15, -1)],
      Bullish |-> [capUtilMultiplier |-> One,        elecPriceMultiplier |-> Dec(1169, -3), markup |-> Dec(12, -1)] ]

PRESETS == [ Bearish |-> [capUtilMultiplier |-> Dec(7, -1), elecPriceMultiplier |-> Dec(844, -3), markup |-> Dec(12, -1)],
             Base    |-> [capUtilMultiplier |-> One,        elecPriceMultiplier |-> One,          markup |-> Dec(15, -1)],
             Bullish |-> [capUtilMultiplier |-> One,        elecPriceMultiplier |-> Dec(1169, -3), markup |-> FromInt(2)] ]
Presets == DOMAIN PRESETS

ADOPTION == [steepness |-> Dec(55, -2), floor |-> Dec(1, -6)]

\* (365.2425 * 24 * 3600) / 600
BLOCKS_PER_YEAR == Div(Mul(Mul(Dec(3652425, -4), FromInt(24)), FromInt(3600)), FromInt(600))

\* null / undefined, and a present value
NULL == [null |-> TRUE]
Some(v) == [null |-> FALSE, v |-> v]

\* Math.pow(b, x).
MathPow(b, x) ==
    IF IsZero(x) THEN One
    ELSE IF b.k = "nan" \/ x.k = "nan" THEN NaN
    ELSE IF Gt(b, Zero) THEN MathExp(Mul(x, MathLog(b)))
    ELSE IF IsZero(b) THEN (IF Gt(x, Zero) THEN Zero ELSE Infinity(1))
    ELSE NaN

\* The Number of a subsidy kept in units of 50 * 2^-28 BTC.
SubsidyNumber(u) == Mul(FromInt(50), Div(FromInt(u), FromInt(BTC50)))

\* new Date(iso).getUTCFullYear() as a Number: NaN for an Invalid Date.
YearNumber(tv) == IF tv.ok THEN FromInt(GetUTCFullYear(tv)) ELSE NaN

\* yearsBetween(aISO, bISO), from the two time values (the time values are in
\* days, so the divisor 365.2425*24*3600*1000 ms is 365.2425 days).
yearsBetween(ta, tb) ==
    IF ta.ok /\ tb.ok THEN Div(FromInt(tb.days - ta.days), Dec(3652425, -4)) ELSE NaN

\* The state a render's callbacks close over.
Captured ==
    [ capSharePct |-> capSharePct, feesPct |-> feesPct,
      elecBaseUSDkWh |-> elecBaseUSDkWh, elecDriftPct |-> elecDriftPct,
      cpiPct |-> cpiPct, overheadPhi |-> overheadPhi,
      histByYear |-> histByYear, histLastYear |-> histLastYear,
      histLastShare |-> histLastShare ]

worldElectricityTWh(tv) ==
    LET yearsRel == Sub(YearNumber(tv), FromInt(2024))
    IN  Mul(CONFIG.worldElecBaseTWh2024, MathPow(Add(One, CONFIG.worldElecGrowth), yearsRel))

electricityPriceUSDkWh(tv, p, c) ==
    LET years == yearsBetween(DateOf(CONFIG.baseDateISO), tv)
        baseUSD == Mul(c.elecBaseUSDkWh,
                       MathPow(Add(One, Div(c.elecDriftPct, FromInt(100))), years))
    IN  Mul(baseUSD, PRESETS[p].elecPriceMultiplier)

cpiFactor(tv, c) ==
    LET years == yearsBetween(DateOf(CONFIG.baseDateISO), tv)
    IN  MathPow(Add(One, Div(c.cpiPct, FromInt(100))), years)

\* The locals of anchoredAdoption, one definition each.
capShareFraction(p, c) ==
    Mul(Div(c.capSharePct, FromInt(100)), PRESETS[p].capUtilMultiplier)

baseYear(c) ==
    IF c.histLastYear.null THEN GetUTCFullYear(DateOf(CONFIG.baseDateISO))
    ELSE c.histLastYear.v

anchorShare(c) ==
    IF ~c.histLastShare.null /\ IsFinite(c.histLastShare.v) THEN c.histLastShare.v
    ELSE Dec(1, -3)

\* mutant of a0Raw: the division is made without the capShareFraction > 0 guard
a0RawUnguarded(p, c) == Div(anchorShare(c), capShareFraction(p, c))

a0Raw(p, c) ==
    IF Gt(capShareFraction(p, c), Zero)
    THEN Div(anchorShare(c), capShareFraction(p, c))
    ELSE Dec(1, -2)

\* mutant of a0: the ratio is used as it is, without the clamp
a0Unclamped(p, c) == a0Raw(p, c)

a0(p, c) ==
    MathMax(Add(ADOPTION.floor, Dec(1, -6)), MathMin(Sub(One, Dec(1, -6)), a0Raw(p, c)))

y0(p, c) ==
    Sub(FromInt(baseYear(c)),
        Mul(Div(One, ADOPTION.steepness), MathLog(Sub(Div(One, a0(p, c)), One))))

\* mutant of logistic: the exponent has lost its minus sign
logisticRising(y, p, c) ==
    Div(One, Add(One, MathExp(Mul(ADOPTION.steepness, Sub(y, y0(p, c))))))

\* x = 1 / (1 + Math.exp(-ADOPTION.steepness * (y - y0)))
logistic(y, p, c) ==
    Div(One, Add(One, MathExp(Mul(Neg(ADOPTION.steepness), Sub(y, y0(p, c))))))

\* mutant of clampAdoption: x is returned as it is
noClamp(x) == x

\* Math.max(ADOPTION.floor, Math.min(1, x))
clampAdoption(x) == MathMax(ADOPTION.floor, MathMin(One, x))

anchoredAdoption(tv, p, c) == clampAdoption(logistic(YearNumber(tv), p, c))

\* histByYear && typeof histByYear[y]?.share === "number"
HasMeasured(tv, c) ==
    /\ ~c.histByYear.null
    /\ tv.ok
    /\ GetUTCFullYear(tv) \in DOMAIN c.histByYear.v
    /\ ~c.histByYear.v[GetUTCFullYear(tv)].share.null

\* share = (capSharePct/100) * util * adopt
projectedShare(tv, p, c) ==
    Mul(Mul(Div(c.capSharePct, FromInt(100)), PRESETS[p].capUtilMultiplier),
        anchoredAdoption(tv, p, c))

\* mutant of shareUsed: the projection is used whatever the table holds
shareAlwaysProjected(tv, p, c) == projectedShare(tv, p, c)

shareUsed(tv, p, c) ==
    IF HasMeasured(tv, c) THEN c.histByYear.v[GetUTCFullYear(tv)].share.v
    ELSE projectedShare(tv, p, c)

\* mutant of priceFromEnergyCap: the fee percentage is added to the subsidy as
\* a fraction of one coin, and the markup is added to the floor
priceFeesAndMarkupAdded(tv, p, c) ==
    LET S == SubsidyNumber(subsidyOfTime(tv))
        S_eff == Add(S, Div(c.feesPct, FromInt(100)))
        worldTWh == worldElectricityTWh(tv)
        share == shareUsed(tv, p, c)
        btcTWh == Mul(worldTWh, share)
        energyPerBlockWh == Div(Mul(btcTWh, Dec(1, 12)), BLOCKS_PER_YEAR)
        usdPerKWh == electricityPriceUSDkWh(tv, p, c)
        costPerBlockUSD == Mul(Mul(Div(energyPerBlockWh, FromInt(1000)), usdPerKWh), c.overheadPhi)
        floorPerBTC == Div(costPerBlockUSD, S_eff)
        fairPerBTC == Add(floorPerBTC, PRESETS[p].markup)
        fairPerBTCReal == Div(fairPerBTC, cpiFactor(tv, c))
    IN  [S |-> S, S_eff |-> S_eff, fairPerBTC |-> fairPerBTC,
         fairPerBTCReal |-> fairPerBTCReal, floorPerBTC |-> floorPerBTC, share |-> share]

\* The arithmetic of priceFromEnergyCap on the values its calls returned: S of
\* subsidyOnDate, worldTWh of worldElectricityTWh, share (measured or
\* projected), usdPerKWh of electricityPriceUSDkWh and cpiF of cpiFactor.
priceOfValues(S, worldTWh, share, usdPerKWh, cpiF, p, c) ==
    LET S_eff == Mul(S, Add(One, Div(c.feesPct, FromInt(100))))
        btcTWh == Mul(worldTWh, share)
        energyPerBlockWh == Div(Mul(btcTWh, Dec(1, 12)), BLOCKS_PER_YEAR)
        costPerBlockUSD == Mul(Mul(Div(energyPerBlockWh, FromInt(1000)), usdPerKWh), c.overheadPhi)
        floorPerBTC == Div(costPerBlockUSD, S_eff)
        fairPerBTC == Mul(floorPerBTC, PRESETS[p].markup)
        fairPerBTCReal == Div(fairPerBTC, cpiF)
    IN  [S |-> S, S_eff |-> S_eff, share |-> share, floorPerBTC |-> floorPerBTC,
         fairPerBTC |-> fairPerBTC, fairPerBTCReal |-> fairPerBTCReal]

priceFromEnergyCap(tv, p, c) ==
    priceOfValues(SubsidyNumber(subsidyOfTime(tv)), worldElectricityTWh(tv),
                  shareUsed(tv, p, c), electricityPriceUSDkWh(tv, p, c), cpiFactor(tv, c), p, c)

\* The dials as the component creates them (useState defaults).
DefaultDials ==
    /\ capSharePct = Dec(15, -1)
    /\ feesPct = FromInt(15)
    /\ elecBaseUSDkWh = Dec(6, -2)
    /\ elecDriftPct = One
    /\ cpiPct = Dec(25, -1)
    /\ overheadPhi = Dec(115, -2)

\* -------------------------------------------------------- /api/history
WORLD_ELEC_BASE_TWH_2024 == FromInt(30000)
WORLD_ELEC_GROWTH == Dec(25, -3)

serverWorldElectricityTWh(y) ==
    Mul(WORLD_ELEC_BASE_TWH_2024, MathPow(Add(One, WORLD_ELEC_GROWTH), FromInt(y - 2024)))

effJperTHByYear(y) ==
    IF y <= 2011 THEN FromInt(5000000)
    ELSE IF y <= 2013 THEN FromInt(50000)
    ELSE IF y <= 2016 THEN FromInt(120)
    ELSE IF y <= 2018 THEN FromInt(85)
    ELSE IF y <= 2020 THEN FromInt(38)
    ELSE IF y <= 2022 THEN FromInt(25)
    ELSE IF y <= 2024 THEN FromInt(18)
    ELSE FromInt(16)

\* One year of the handler's loop: average TH/s -> W -> TWh -> share of world.
yearShare(y, avgTHs) ==
    LET powerW == Mul(avgTHs, effJperTHByYear(y))
        hours == Mul(Dec(3652425, -4), FromInt(24))
        twh == Div(Mul(powerW, hours), Dec(1, 12))
        worldTwh == serverWorldElectricityTWh(y)
        share == IF Gt(worldTwh, Zero) THEN Div(twh, worldTwh) ELSE Zero
    IN  [share |-> share, twh |-> twh]

SetMax(S) == CHOOSE x \in S : \A z \in S : z <= x

\* mutant of JsonNumber: a non-finite Number reaches the client as a number
JsonNumberAsIs(x) == Some(x)

\* JSON.stringify of a Number: NaN and +-Infinity become null.
JsonNumber(x) == IF IsFinite(x) THEN Some(x) ELSE NULL

\* The handler's 200 response for the yearly averages avg (year -> TH/s), as
\* the client reads it: lastYear is absent when there is no year at all.
\* res.status(200).json({ ok: true, byYear: out, lastYear, lastShare })
historyJson(out) ==
    LET years == DOMAIN out
        lastShare == IF years = {} THEN Zero ELSE out[SetMax(years)].share
    IN  [ byYear |-> [y \in years |-> [share |-> JsonNumber(out[y].share),
                                       twh |-> JsonNumber(out[y].twh)]],
          lastYear |-> IF years = {} THEN NULL ELSE Some(SetMax(years)),
          lastShare |-> JsonNumber(lastShare) ]

historyResponse(avg) == historyJson([y \in DOMAIN avg |-> yearShare(y, avg[y])])

\* The yearly hashrate averages the upstream chart may give: two years of
\* data, no data at all, and a last or an earlier year whose points carry no
\* number (a point without y makes the year's sum NaN).
HashrateCharts ==
    { (2024 :> Dec(6, 8)) @@ (2025 :> Dec(9, 8)),
      [y \in {} |-> Zero],
      (2024 :> Dec(6, 8)) @@ (2025 :> NaN),
      (2024 :> NaN) @@ (2025 :> Dec(9, 8)) }

\* The history state of the component: never loaded (or the fetch failed), or
\* set from a response by setHistByYear / setHistLastYear / setHistLastShare.
HistoryLoaded(resp) ==
    /\ histByYear = Some(resp.byYear)
    /\ histLastYear = resp.lastYear
    /\ histLastShare = resp.lastShare

HistoryNotLoaded ==
    /\ histByYear = NULL
    /\ histLastYear = NULL
    /\ histLastShare = NULL

\* --------------------------------------------------------- specifications

\* The component before its first render, in a browser on UTC.
UiNotMounted ==
    /\ showReal = FALSE
    /\ tzWest = FALSE
    /\ hooks = NULL
    /\ seriesFull = <<>>
    /\ cpiYoYLatest = NULL
    /\ feeSharePctLive = NULL

\* The /api/cpi module as it is loaded: no cache, no request yet.
CpiNotStarted ==
    /\ cpiCache = NULL
    /\ cpiClock = 0
    /\ cpiKey = TRUE
    /\ cpiReqs = {}
    /\ cpiResp = NULL
    /\ cpiFetched = FALSE

FeesNotStarted ==
    /\ feesQuery = [kind |-> "absent"]
    /\ feesSample = NULL
    /\ feesBlocks = <<>>
    /\ feesFromHash = NULL
    /\ feesFetches = 0
    /\ feesPc = "idle"
    /\ feesResp = NULL

DifficultyNotStarted ==
    /\ diffRes = NULL
    /\ heightRes = NULL
    /\ diffPc = "idle"
    /\ diffResp = NULL

\* The five live cards, by the prefix of their state variables.
Cards == {"cpi", "hash", "diff", "fee", "elec"}

LiveNotStarted ==
    /\ liveMounted = FALSE
    /\ liveSyncing = [c \in Cards |-> FALSE]
    /\ liveErr = [c \in Cards |-> NULL]
    /\ liveInFlight = [c \in Cards |-> 0]

OthersNotStarted == FeesNotStarted /\ DifficultyNotStarted /\ LiveNotStarted

InitHalving ==
    /\ year \in MinYear..MaxYear
    /\ month \in 1..12
    /\ day \in 1..31
    /\ preset = "Base"
    /\ DefaultDials
    /\ histByYear = NULL
    /\ histLastYear = NULL
    /\ histLastShare = NULL
    /\ pc = "idle"
    /\ t = NaNTime
    /\ s = 0
    /\ r = NULL
    /\ UiNotMounted
    /\ CpiNotStarted
    /\ OthersNotStarted

\* One call subsidyOnDate(targetISO).
CallSubsidyOnDate ==
    /\ pc = "idle"
    /\ \E tv \in ParseDate(targetISO) :
          /\ t' = tv
          /\ s' = subsidyOfTime(tv)
    /\ pc' = "done"
    /\ UNCHANGED <<year, month, day, preset, dials, hist, r, ui, cpi, others>>

NextHalving == CallSubsidyOnDate

SpecHalving == InitHalving /\ [][NextHalving]_vars

\* The cap-share percentages tried: 0, one that puts the ceiling below the
\* measured share, and the default.
CapSharePcts == {Zero, Dec(3, -1), Dec(15, -1)}

\* The month and day tried: the default target day, and a day February never has.
MonthDays == {<<10, 13>>, <<2, 31>>}

InitShare ==
    /\ year \in MinYear..ShareMaxYear
    /\ \E md \in MonthDays : month = md[1] /\ day = md[2]
    /\ preset \in Presets
    /\ capSharePct \in CapSharePcts
    /\ feesPct = FromInt(15)
    /\ elecBaseUSDkWh = Dec(6, -2)
    /\ elecDriftPct = One
    /\ cpiPct = Dec(25, -1)
    /\ overheadPhi = Dec(115, -2)
    /\ \/ HistoryNotLoaded
       \/ \E avg \in HashrateCharts : HistoryLoaded(historyResponse(avg))
    /\ pc = "idle"
    /\ t = NaNTime
    /\ s = 0
    /\ r = NULL
    /\ UiNotMounted
    /\ CpiNotStarted
    /\ OthersNotStarted

\* One call priceFromEnergyCap(targetISO, preset).
CallPriceFromEnergyCap ==
    /\ pc = "idle"
    /\ \E tv \in ParseDate(targetISO) :
          /\ t' = tv
          /\ s' = subsidyOfTime(tv)
          /\ r' = priceFromEnergyCap(tv, preset, Captured)
    /\ pc' = "done"
    /\ UNCHANGED <<year, month, day, preset, dials, hist, ui, cpi, others>>

NextShare == CallPriceFromEnergyCap

SpecShare == InitShare /\ [][NextShare]_vars

\* ------------------------------------------------------------ chart series
\* The calendar date the local getters (getFullYear, getMonth, getDate) give
\* for the UTC midnight of day n: the day before in a zone behind UTC, the same
\* day in a zone at or ahead of UTC.
LocalDate(n, west) == ToISODate(IF west THEN n - 1 ELSE n)

\* showReal ? r.fairPerBTCReal : r.fairPerBTC
seriesPrice(res, real) == IF real THEN res.fairPerBTCReal ELSE res.fairPerBTC

\* mutant of seriesLoop: the loop condition written y < endYear
seriesLoopExclusive(startYear, endYear, mm, dd, p, real, c) ==
    [i \in 1..(endYear - startYear) |->
        [year |-> startYear + i - 1,
         price |-> seriesPrice(priceFromEnergyCap(DateOf(Iso(startYear + i - 1, mm, dd)), p, c), real)]]

\* for (let y = startYear; y <= endYear; y++) { ... out.push({ year: y, price }) }:
\* the i-th pass pushes the point of year startYear + i - 1, and there are
\* endYear - startYear + 1 passes (none if endYear < startYear). The string
\* `${y}-${mm}-${dd}` is built from the month and day of a Date, so it is a
\* calendar date whenever that day exists in year y.
seriesLoop(startYear, endYear, mm, dd, p, real, c) ==
    [i \in 1..(endYear - startYear + 1) |->
        [year |-> startYear + i - 1,
         price |-> seriesPrice(priceFromEnergyCap(DateOf(Iso(startYear + i - 1, mm, dd)), p, c), real)]]

\* The body of useMemo seriesFull, for the preset p, the flag real, the
\* captured state c and a browser whose zone is behind UTC or not.
seriesFullOf(p, real, c, west) ==
    LET base == LocalDate(DateOf(CONFIG.baseDateISO).days, west)
        startYear == 2009
        endYear == base.y + 25
    IN  seriesLoop(startYear, endYear, base.m, base.d, p, real, c)

\* The cap-share percentages of the chart runs.
SeriesCapSharePcts == {Dec(3, -1), Dec(15, -1)}

InitSeries ==
    /\ year = 2050
    /\ month = 10
    /\ day = 13
    /\ preset \in Presets
    /\ capSharePct \in SeriesCapSharePcts
    /\ feesPct = FromInt(15)
    /\ elecBaseUSDkWh = Dec(6, -2)
    /\ elecDriftPct = One
    /\ cpiPct = Dec(25, -1)
    /\ overheadPhi = Dec(115, -2)
    /\ \/ HistoryNotLoaded
       \/ \E avg \in HashrateCharts : HistoryLoaded(historyResponse(avg))
    /\ pc = "idle"
    /\ t = NaNTime
    /\ s = 0
    /\ r = NULL
    /\ showReal \in BOOLEAN
    /\ tzWest \in BOOLEAN
    /\ hooks = NULL
    /\ seriesFull = <<>>
    /\ cpiYoYLatest = NULL
    /\ feeSharePctLive = NULL
    /\ CpiNotStarted
    /\ OthersNotStarted

\* One evaluation of the useMemo callback of seriesFull.
ComputeSeriesFull ==
    /\ pc = "idle"
    /\ seriesFull' = seriesFullOf(preset, showReal, Captured, tzWest)
    /\ pc' = "done"
    /\ UNCHANGED <<year, month, day, preset, dials, hist, t, s, r, cpi, others>>
    /\ UNCHANGED <<showReal, tzWest, hooks, cpiYoYLatest, feeSharePctLive>>

NextSeries == ComputeSeriesFull

SpecSeries == InitSeries /\ [][NextSeries]_vars

\* ------------------------------------------------- the component's renders
\* A memoised callback is kept as the values its body reads from the render
\* it was created in (scope) and the values of its dependency array (deps).
\* useCallback(fn, deps): the callback of the previous render if there is one
\* and no dependency has changed, the one of this render otherwise.
useCallback(prev, scope, deps) ==
    IF ~prev.null /\ prev.v.deps = deps THEN prev.v
    ELSE [scope |-> scope, deps |-> deps]

\* useMemo(fn, deps), fn() given as value.
useMemo(prev, value, deps) ==
    IF ~prev.null /\ prev.v.deps = deps THEN prev.v
    ELSE [value |-> value, deps |-> deps]

\* one hook of the previous render (null on the first render)
PrevHook(h, name) == IF h.null THEN NULL ELSE Some(h.v[name])

\* What the bodies of the callbacks read from the render's state c.
electricityPriceScope(c) == [elecBaseUSDkWh |-> c.elecBaseUSDkWh, elecDriftPct |-> c.elecDriftPct]
cpiFactorScope(c) == [cpiPct |-> c.cpiPct]
anchoredAdoptionScope(c) ==
    [capSharePct |-> c.capSharePct, histLastYear |-> c.histLastYear,
     histLastShare |-> c.histLastShare]
priceScope(c, adopt, elec, cpiF) ==
    [feesPct |-> c.feesPct, overheadPhi |-> c.overheadPhi, capSharePct |-> c.capSharePct,
     histByYear |-> c.histByYear,
     anchoredAdoption |-> adopt, electricityPriceUSDkWh |-> elec, cpiFactor |-> cpiF]

\* The dependency arrays. subsidyOnDate and worldElectricityTWh have the array
\* [] and read no state: they are the same callbacks in every render.
electricityPriceDeps(c) == <<c.elecBaseUSDkWh, c.elecDriftPct>>
cpiFactorDeps(c) == <<c.cpiPct>>

\* mutant of anchoredAdoptionDeps: the history values left out of the array
anchoredAdoptionDepsCapOnly(c) == <<c.capSharePct>>

anchoredAdoptionDeps(c) == <<c.capSharePct, c.histLastYear, c.histLastShare>>
priceDeps(c, adopt, elec, cpiF) ==
    <<c.feesPct, c.overheadPhi, c.capSharePct, c.histByYear, adopt, elec, cpiF>>

\* The state a call of the callback cl of priceFromEnergyCap works on: its own
\* scope and the scopes of the callbacks it calls.
ClosureState(cl) ==
    [ capSharePct |-> cl.scope.capSharePct, feesPct |-> cl.scope.feesPct,
      elecBaseUSDkWh |-> cl.scope.electricityPriceUSDkWh.scope.elecBaseUSDkWh,
      elecDriftPct |-> cl.scope.electricityPriceUSDkWh.scope.elecDriftPct,
      cpiPct |-> cl.scope.cpiFactor.scope.cpiPct,
      overheadPhi |-> cl.scope.overheadPhi,
      histByYear |-> cl.scope.histByYear,
      histLastYear |-> cl.scope.anchoredAdoption.scope.histLastYear,
      histLastShare |-> cl.scope.anchoredAdoption.scope.histLastShare ]

\* The memoised hooks after a render with the state c, the target date iso
\* (parsed: tv) and the preset p; h holds the hooks of the previous render.
renderHooks(h, c, iso, p, tv) ==
    LET elec == useCallback(PrevHook(h, "electricityPriceUSDkWh"),
                            electricityPriceScope(c), electricityPriceDeps(c))
        cpiF == useCallback(PrevHook(h, "cpiFactor"), cpiFactorScope(c), cpiFactorDeps(c))
        adopt == useCallback(PrevHook(h, "anchoredAdoption"),
                             anchoredAdoptionScope(c), anchoredAdoptionDeps(c))
        price == useCallback(PrevHook(h, "priceFromEnergyCap"),
                             priceScope(c, adopt, elec, cpiF), priceDeps(c, adopt, elec, cpiF))
    IN  [ electricityPriceUSDkWh |-> elec, cpiFactor |-> cpiF, anchoredAdoption |-> adopt,
          priceFromEnergyCap |-> price,
          r |-> useMemo(PrevHook(h, "r"),
                        priceFromEnergyCap(tv, p, ClosureState(price)), <<iso, p, price>>) ]

\* useLiveCpi: created true and never set
useLiveCpi == TRUE

\* The values the inputs and the live cards bring in.
SessionYears == {2024, 2050}
CapShareInputs == {Dec(3, -1), Dec(15, -1)}
OverheadInputs == {Dec(5, -1), Dec(115, -2)}
LiveCpiYoY == {NULL, Some(Dec(29, -1))}
LiveFeeShares == {NULL, Some(Dec(234, -2))}
SessionCharts == { (2024 :> Dec(6, 8)) @@ (2025 :> Dec(9, 8)) }

InitSession ==
    /\ year = 2050
    /\ month = 10
    /\ day = 13
    /\ preset = "Base"
    /\ DefaultDials
    /\ HistoryNotLoaded
    /\ pc = "idle"
    /\ t = NaNTime
    /\ s = 0
    /\ r = NULL
    /\ UiNotMounted
    /\ CpiNotStarted
    /\ OthersNotStarted

\* The render that follows a state update (or the first one), part of every
\* step of NextSession: the hooks are evaluated on the new state; t and s are the locals of the call of
\* subsidyOnDate made when r is computed anew. The chart memo is left to
\* SpecSeries.
Rendered(h, tv) ==
    /\ hooks' = Some(h)
    /\ r' = h.r.value
    /\ IF hooks.null \/ hooks.v.r # h.r
       THEN t' = tv /\ s' = subsidyOfTime(tv)
       ELSE UNCHANGED <<t, s>>

Render ==
    /\ \E tv \in ParseDate(targetISO') :
          Rendered(renderHooks(hooks, Captured', targetISO', preset', tv), tv)
    /\ pc' = "done"
    /\ UNCHANGED <<showReal, tzWest, seriesFull, cpi, others>>

Mount ==
    /\ pc = "idle"
    /\ UNCHANGED <<year, month, day, preset, dials, hist, cpiYoYLatest, feeSharePctLive>>

\* onClick of a preset button
SetPreset ==
    /\ pc = "done"
    /\ \E p \in Presets : preset' = p
    /\ UNCHANGED <<year, month, day, dials, hist, cpiYoYLatest, feeSharePctLive>>

\* onChange of the year inputs
SetYear ==
    /\ pc = "done"
    /\ \E y \in SessionYears : year' = y
    /\ UNCHANGED <<month, day, preset, dials, hist, cpiYoYLatest, feeSharePctLive>>

\* onChange of the cap-share input: setCapSharePct(Math.max(0, Number(v)))
SetCapSharePct ==
    /\ pc = "done"
    /\ \E v \in CapShareInputs : capSharePct' = MathMax(Zero, v)
    /\ UNCHANGED <<year, month, day, preset, hist, cpiYoYLatest, feeSharePctLive>>
    /\ UNCHANGED <<feesPct, elecBaseUSDkWh, elecDriftPct, cpiPct, overheadPhi>>

\* onChange of the overhead input: setOverheadPhi(Math.max(1, Number(v)))
SetOverheadPhi ==
    /\ pc = "done"
    /\ \E v \in OverheadInputs : overheadPhi' = MathMax(One, v)
    /\ UNCHANGED <<year, month, day, preset, hist, cpiYoYLatest, feeSharePctLive>>
    /\ UNCHANGED <<capSharePct, feesPct, elecBaseUSDkWh, elecDriftPct, cpiPct>>

\* setHistByYear(j.byYear), setHistLastYear(j.lastYear), setHistLastShare(j.lastShare)
SetHistory(j) ==
    /\ histByYear' = Some(j.byYear)
    /\ histLastYear' = j.lastYear
    /\ histLastShare' = j.lastShare

\* The mount effect's fetch of /api/history has answered ok: true.
HistoryArrives ==
    /\ pc = "done"
    /\ histByYear.null
    /\ \E avg \in SessionCharts : SetHistory(historyResponse(avg))
    /\ UNCHANGED <<year, month, day, preset, dials, cpiYoYLatest, feeSharePctLive>>

\* syncCpi, from the answer ok: true on: yoy is d.yoyPct if it is a number.
SyncCpiDone ==
    /\ pc = "done"
    /\ \E yoy \in LiveCpiYoY :
          /\ cpiYoYLatest' = yoy
          /\ cpiPct' = IF useLiveCpi /\ ~yoy.null THEN ToFixed(yoy.v, 2) ELSE cpiPct
    /\ UNCHANGED <<year, month, day, preset, hist, feeSharePctLive>>
    /\ UNCHANGED <<capSharePct, feesPct, elecBaseUSDkWh, elecDriftPct, overheadPhi>>

\* A live fetcher whose answer was not ok (or a card the valuation does not
\* read): its error or value is set and the component renders again.
SyncWithoutEffect ==
    /\ pc = "done"
    /\ UNCHANGED <<year, month, day, preset, dials, hist, cpiYoYLatest, feeSharePctLive>>

\* syncFees, from the answer ok: true on.
SyncFeesDone ==
    /\ pc = "done"
    /\ \E v \in LiveFeeShares : feeSharePctLive' = v
    /\ UNCHANGED <<year, month, day, preset, dials, hist, cpiYoYLatest>>

\* onClick of "use live" on the fee card (disabled while there is no value)
UseLiveFees ==
    /\ pc = "done"
    /\ ~feeSharePctLive.null
    /\ feesPct' = ToFixed(feeSharePctLive.v, 1)
    /\ UNCHANGED <<year, month, day, preset, hist, cpiYoYLatest, feeSharePctLive>>
    /\ UNCHANGED <<capSharePct, elecBaseUSDkWh, elecDriftPct, cpiPct, overheadPhi>>

\* A step of the component: one of the updates above and the render React
\* makes of the updated state before anything else runs.
NextSession ==
    /\ \/ Mount
       \/ SetPreset
       \/ SetYear
       \/ SetCapSharePct
       \/ SetOverheadPhi
       \/ HistoryArrives
       \/ SyncCpiDone
       \/ SyncWithoutEffect
       \/ SyncFeesDone
       \/ UseLiveFees
    /\ Render

SpecSession == InitSession /\ [][NextSession]_vars

\* ------------------------------------------------------------- /api/cpi
\* Times are Date.now() values, in milliseconds since the process started.
TTL_MS == 7 * 24 * 60 * 60 * 1000

\* The instants at which something happens: the start, the last millisecond
\* before a cache entry of instant 0 expires, and its expiry.
Instants == {0, TTL_MS - 1, TTL_MS}

\* The number of requests that may wait for the BLS answer at the same time.
MaxInFlight == 2

MonthStrings == <<"M01", "M02", "M03", "M04", "M05", "M06",
                  "M07", "M08", "M09", "M10", "M11", "M12">>

\* monthFromPeriod: the month of "M01" .. "M12", null for anything else
\* ("M13", the annual average, passes the pattern and fails the range).
monthFromPeriod(p) ==
    IF \E m \in 1..12 : MonthStrings[m] = p
    THEN Some(CHOOSE m \in 1..12 : MonthStrings[m] = p)
    ELSE NULL

\* toNumber of a field of an observation: a field is kept as the number its
\* string spells, or as null where it spells none.
toNumber(x) == IF ~x.null /\ IsFinite(x.v) THEN x ELSE NULL

\* obs.map(...).filter(x => x !== null)
RECURSIVE monthlyOf(_)
monthlyOf(obs) ==
    IF obs = <<>> THEN <<>>
    ELSE LET o == Head(obs)
             y == toNumber(o.year)
             m == monthFromPeriod(o.period)
             idx == toNumber(o.value)
         IN  IF y.null \/ m.null \/ idx.null THEN monthlyOf(Tail(obs))
             ELSE <<[y |-> Trunc(y.v), m |-> m.v, idx |-> idx.v]>> \o monthlyOf(Tail(obs))

\* (a.y - b.y) || (a.m - b.m) <= 0
ObsLe(a, b) == a.y < b.y \/ (a.y = b.y /\ a.m <= b.m)

\* .sort(...): Array.prototype.sort is stable; the elements are put in one by
\* one, each behind those that are not greater.
RECURSIVE sortMonthly(_)
sortMonthly(sq) ==
    IF sq = <<>> THEN <<>>
    ELSE LET front == sortMonthly(SubSeq(sq, 1, Len(sq) - 1))
             x == sq[Len(sq)]
             k == Cardinality({i \in 1..Len(front) : ObsLe(front[i], x)})
         IN  SubSeq(front, 1, k) \o <<x>> \o SubSeq(front, k + 1, Len(front))

\* monthly.findLast(o => o.y === latest.y - 1 && o.m === latest.m)
findPrior(monthly, latest) ==
    LET hits == {i \in 1..Len(monthly) :
                    monthly[i].y = latest.y - 1 /\ monthly[i].m = latest.m}
    IN  IF hits = {} THEN NULL ELSE Some(monthly[SetMax(hits)])

\* The try block from the answer of fetch on: the payload (without asOfISO),
\* or the message of the Error thrown.
blsOutcome(ans) ==
    IF ~ans.net THEN [ok |-> FALSE, error |-> "fetch failed"]
    ELSE IF ~ans.httpOk THEN [ok |-> FALSE, error |-> "BLS HTTP"]
    ELSE IF ans.status # "REQUEST_SUCCEEDED" \/ Len(ans.series) = 0
         THEN [ok |-> FALSE, error |-> "No CPI data"]
    ELSE LET series == ans.series[1]
             monthly == sortMonthly(monthlyOf(series.data))
         IN  IF Len(monthly) = 0 THEN [ok |-> FALSE, error |-> "No monthly CPI observations"]
             ELSE LET latest == monthly[Len(monthly)]
                      prior == findPrior(monthly, latest)
                      yoyPct == IF prior.null THEN NULL
                                ELSE Some(Mul(Div(Sub(latest.idx, prior.v.idx), prior.v.idx),
                                              FromInt(100)))
                  IN  [ok |-> TRUE,
                       seriesId |-> series.seriesID,
                       latestPeriod |-> [y |-> latest.y, m |-> latest.m],
                       latestIndex |-> ToFixed(latest.idx, 3),
                       yoyPct |-> IF yoyPct.null THEN NULL ELSE JsonNumber(ToFixed(yoyPct.v, 2))]

Obs(y, p, v) == [year |-> Some(FromInt(y)), period |-> p, value |-> v]

\* What the BLS request may come to: no connection, an HTTP error, a refused
\* request, a series with no monthly observation, and two series with one.
BlsAnswers ==
    { [net |-> FALSE, httpOk |-> FALSE, status |-> "", series |-> <<>>],
      [net |-> TRUE, httpOk |-> FALSE, status |-> "", series |-> <<>>],
      [net |-> TRUE, httpOk |-> TRUE, status |-> "REQUEST_NOT_PROCESSED", series |-> <<>>],
      [net |-> TRUE, httpOk |-> TRUE, status |-> "REQUEST_SUCCEEDED",
       series |-> << [seriesID |-> "CUSR0000SA0",
                      data |-> << Obs(2025, "M13", Some(Dec(3201, -1))),
                                  Obs(2025, "M09", NULL) >>] >>],
      [net |-> TRUE, httpOk |-> TRUE, status |-> "REQUEST_SUCCEEDED",
       series |-> << [seriesID |-> "CUSR0000SA0",
                      data |-> << Obs(2025, "M09", Some(Dec(3248, -1))),
                                  Obs(2025, "M08", Some(Dec(3238, -1))),
                                  Obs(2024, "M09", Some(Dec(3153, -1))) >>] >>],
      [net |-> TRUE, httpOk |-> TRUE, status |-> "REQUEST_SUCCEEDED",
       series |-> << [seriesID |-> "CUSR0000SA0",
                      data |-> << Obs(2025, "M10", Some(Dec(3257, -1))),
                                  Obs(2025, "M09", Some(Dec(3248, -1))) >>] >>] }

\* mutant of cacheIsFresh: the age compared with <= TTL_MS
cacheIsFreshInclusive(force, cache, now) ==
    ~force /\ ~cache.null /\ (now - cache.v.ts) <= TTL_MS

\* !force && _cache && (now - _cache.ts) < TTL_MS
cacheIsFresh(force, cache, now) ==
    ~force /\ ~cache.null /\ (now - cache.v.ts) < TTL_MS

\* { ..._cache.payload, cached: true, cacheAgeSeconds: ageSec }
servedFromCache(cache, now) ==
    [ok |-> TRUE, payload |-> cache.v.payload, cached |-> TRUE,
     cacheAgeSeconds |-> FloorDiv(now - cache.v.ts, 1000)]

errorBody(msg) == [ok |-> FALSE, error |-> msg]

\* The end of the try block: the cache entry written and the body sent.
onFetchSucceeded(now, payload) ==
    [cache |-> Some([ts |-> now, payload |-> payload]),
     body |-> [ok |-> TRUE, payload |-> payload, cached |-> FALSE, cacheAgeSeconds |-> 0]]

\* mutant of onFetchFailed: the error is sent although there is a cache entry
onFetchFailedSendsError(cache, now, msg) ==
    [cache |-> cache, body |-> errorBody(msg)]

\* mutant of onFetchFailed: the cache entry is dropped when BLS fails
onFetchFailedDropsCache(cache, now, msg) ==
    [cache |-> NULL,
     body |-> IF ~cache.null THEN servedFromCache(cache, now) ELSE errorBody(msg)]

\* The catch block: the cache is left alone; its entry is sent if there is one.
onFetchFailed(cache, now, msg) ==
    [cache |-> cache,
     body |-> IF ~cache.null THEN servedFromCache(cache, now) ELSE errorBody(msg)]

\* The process starts with or without BLS_API_KEY in its environment.
InitCpi ==
    /\ year = 2050
    /\ month = 10
    /\ day = 13
    /\ preset = "Base"
    /\ DefaultDials
    /\ HistoryNotLoaded
    /\ pc = "idle"
    /\ t = NaNTime
    /\ s = 0
    /\ r = NULL
    /\ UiNotMounted
    /\ cpiCache = NULL
    /\ cpiClock = 0
    /\ cpiKey \in BOOLEAN
    /\ cpiReqs = {}
    /\ cpiResp = NULL
    /\ cpiFetched = FALSE
    /\ OthersNotStarted

component == <<year, month, day, preset, dials, hist, pc, t, s, r, ui, others>>

\* Time passes.
CpiTick ==
    /\ \E c \in Instants : c > cpiClock /\ cpiClock' = c
    /\ UNCHANGED <<cpiCache, cpiKey, cpiReqs, cpiResp, cpiFetched, component>>

\* What a response is kept with: the request's now and force, whether the
\* request went to BLS, the cache entry it found on arrival and the one it
\* found when it answered, whether a fetch had succeeded before it answered,
\* and the body sent.
Response(now, force, upstream, failed, atArrival, before, body) ==
    Some([now |-> now, force |-> force, upstream |-> upstream, failed |-> failed,
          cacheAtArrival |-> atArrival, cacheBefore |-> before,
          fetchedBefore |-> cpiFetched, body |-> body])

\* A request arrives and the cache entry is fresh: it is answered at once.
CpiServeFresh ==
    \E force \in BOOLEAN :
        /\ cacheIsFresh(force, cpiCache, cpiClock)
        /\ cpiResp' = Response(cpiClock, force, FALSE, FALSE, cpiCache, cpiCache,
                                servedFromCache(cpiCache, cpiClock))
        /\ UNCHANGED <<cpiCache, cpiClock, cpiKey, cpiReqs, cpiFetched, component>>

\* A request arrives, the cache does not serve it and there is no key.
CpiMissingKey ==
    \E force \in BOOLEAN :
        /\ ~cacheIsFresh(force, cpiCache, cpiClock)
        /\ ~cpiKey
        /\ cpiResp' = Response(cpiClock, force, FALSE, TRUE, cpiCache, cpiCache,
                                errorBody("Missing BLS_API_KEY in production env."))
        /\ UNCHANGED <<cpiCache, cpiClock, cpiKey, cpiReqs, cpiFetched, component>>

\* A request arrives, the cache does not serve it and the key is set: the BLS
\* request is sent and the handler waits for its answer.
CpiStartFetch ==
    \E force \in BOOLEAN :
        /\ ~cacheIsFresh(force, cpiCache, cpiClock)
        /\ cpiKey
        /\ Cardinality(cpiReqs) < MaxInFlight
        /\ cpiReqs' = cpiReqs \cup {[now |-> cpiClock, force |-> force, seen |-> cpiCache]}
        /\ UNCHANGED <<cpiCache, cpiClock, cpiKey, cpiResp, cpiFetched, component>>

\* The BLS answer of a waiting request has come and gave a payload.
CpiFetchSucceeds ==
    \E q \in cpiReqs, ans \in BlsAnswers :
        LET out == blsOutcome(ans)
            payload == [seriesId |-> out.seriesId, latestPeriod |-> out.latestPeriod,
                        latestIndex |-> out.latestIndex, yoyPct |-> out.yoyPct,
                        asOfISO |-> cpiClock]
            done == onFetchSucceeded(q.now, payload)
        IN  /\ out.ok
            /\ cpiCache' = done.cache
            /\ cpiResp' = Response(q.now, q.force, TRUE, FALSE, q.seen, cpiCache, done.body)
            /\ cpiFetched' = TRUE
            /\ cpiReqs' = cpiReqs \ {q}
            /\ UNCHANGED <<cpiClock, cpiKey, component>>

\* The BLS request of a waiting request has failed, or its answer had no data.
CpiFetchFails ==
    \E q \in cpiReqs, ans \in BlsAnswers :
        LET out == blsOutcome(ans)
            done == onFetchFailed(cpiCache, q.now, out.error)
        IN  /\ ~out.ok
            /\ cpiCache' = done.cache
            /\ cpiResp' = Response(q.now, q.force, TRUE, TRUE, q.seen, cpiCache, done.body)
            /\ cpiReqs' = cpiReqs \ {q}
            /\ UNCHANGED <<cpiClock, cpiKey, cpiFetched, component>>

NextCpi ==
    \/ CpiTick
    \/ CpiServeFresh
    \/ CpiMissingKey
    \/ CpiStartFetch
    \/ CpiFetchSucceeds
    \/ CpiFetchFails

SpecCpi == InitCpi /\ [][NextCpi]_vars

\* ------------------------------------------------------------- /api/fees
\* A query value as Next.js hands it over: absent, one string, or an array
\* of strings when the key is repeated. A string is a sequence of characters.
Absent == [kind |-> "absent"]
Str(chars) == [kind |-> "string", chars |-> chars]
Arr(items) == [kind |-> "array", items |-> items]

DigitChars == <<"0", "1", "2", "3", "4", "5", "6", "7", "8", "9">>
IsDigit(c) == \E i \in 1..10 : DigitChars[i] = c
DigitVal(c) == (CHOOSE i \in 1..10 : DigitChars[i] = c) - 1
IsSpace(c) == c \in {" ", "\t", "\n"}

\* The string without its leading and trailing white space.
TrimString(cs) ==
    IF \A i \in 1..Len(cs) : IsSpace(cs[i]) THEN <<>>
    ELSE LET a == CHOOSE i \in 1..Len(cs) :
                      ~IsSpace(cs[i]) /\ \A j \in 1..(i - 1) : IsSpace(cs[j])
             b == CHOOSE i \in 1..Len(cs) :
                      ~IsSpace(cs[i]) /\ \A j \in (i + 1)..Len(cs) : IsSpace(cs[j])
         IN  SubSeq(cs, a, b)

\* How many digits cs starts with.
LeadingDigits(cs) ==
    CHOOSE k \in 0..Len(cs) :
        /\ \A i \in 1..k : IsDigit(cs[i])
        /\ k = Len(cs) \/ ~IsDigit(cs[k + 1])

\* The Number written by the digits cs[i..], after the digits before them
\* gave acc.
RECURSIVE DigitsNumber(_, _, _)
DigitsNumber(cs, i, acc) ==
    IF i > Len(cs) \/ acc.k # "num" THEN acc
    ELSE DigitsNumber(cs, i + 1, Add(Mul(acc, FromInt(10)), FromInt(DigitVal(cs[i]))))

\* The integer written by the digits cs[i..] (an exponent).
RECURSIVE DigitsInt(_, _, _)
DigitsInt(cs, i, acc) ==
    IF i > Len(cs) THEN acc ELSE DigitsInt(cs, i + 1, acc * 10 + DigitVal(cs[i]))

\* The exponent part of a decimal literal: nothing, or e or E, an optional
\* sign and at least one digit. NULL when cs is none of these.
ExponentOf(cs) ==
    IF cs = <<>> THEN Some(0)
    ELSE IF cs[1] \notin {"e", "E"} THEN NULL
    ELSE LET rest == Tail(cs)
             signed == rest # <<>> /\ rest[1] \in {"+", "-"}
             ds == IF signed THEN Tail(rest) ELSE rest
         IN  IF ds = <<>> \/ LeadingDigits(ds) # Len(ds) THEN NULL
             ELSE IF signed /\ rest[1] = "-" THEN Some(-DigitsInt(ds, 1, 0))
             ELSE Some(DigitsInt(ds, 1, 0))

\* An unsigned decimal literal: digits, an optional point and digits, an
\* optional exponent, with a digit before the exponent; NaN otherwise.
UnsignedDecimal(cs) ==
    LET ni == LeadingDigits(cs)
        afterInt == SubSeq(cs, ni + 1, Len(cs))
        hasDot == afterInt # <<>> /\ afterInt[1] = "."
        frac == IF hasDot THEN Tail(afterInt) ELSE afterInt
        nf == IF hasDot THEN LeadingDigits(frac) ELSE 0
        ex == ExponentOf(SubSeq(frac, nf + 1, Len(frac)))
    IN  IF ni + nf = 0 \/ ex.null THEN NaN
        ELSE Mul(DigitsNumber(SubSeq(cs, 1, ni) \o SubSeq(frac, 1, nf), 1, Zero),
                 Dec(1, ex.v - nf))

\* The digits of a literal in base 16, 8 or 2 after its 0x, 0o or 0b.
RadixChars == <<"0", "1", "2", "3", "4", "5", "6", "7", "8", "9",
                "a", "b", "c", "d", "e", "f">>
UpperChars == <<"0", "1", "2", "3", "4", "5", "6", "7", "8", "9",
                "A", "B", "C", "D", "E", "F">>
IsRadixDigit(c, base) ==
    \E i \in 1..base : RadixChars[i] = c \/ UpperChars[i] = c
RadixVal(c) == (CHOOSE i \in 1..16 : RadixChars[i] = c \/ UpperChars[i] = c) - 1

RECURSIVE RadixNumber(_, _, _, _)
RadixNumber(cs, i, base, acc) ==
    IF i > Len(cs) \/ acc.k # "num" THEN acc
    ELSE RadixNumber(cs, i + 1, base,
                     Add(Mul(acc, FromInt(base)), FromInt(RadixVal(cs[i]))))

RadixBase(c) ==
    IF c \in {"x", "X"} THEN 16 ELSE IF c \in {"o", "O"} THEN 8
    ELSE IF c \in {"b", "B"} THEN 2 ELSE 0

InfinityChars == <<"I", "n", "f", "i", "n", "i", "t", "y">>

\* Number(s) of a string: white space is trimmed, the empty string is 0, then
\* a literal in base 16, 8 or 2 (unsigned), or an optional sign before
\* Infinity or a decimal literal; anything else is NaN.
StringToNumber(cs) ==
    LET trimmed == TrimString(cs)
    IN  IF trimmed = <<>> THEN Zero
        ELSE IF Len(trimmed) >= 2 /\ trimmed[1] = "0" /\ RadixBase(trimmed[2]) # 0
        THEN LET ds == SubSeq(trimmed, 3, Len(trimmed))
             IN  IF \/ ds = <<>>
                    \/ \E i \in 1..Len(ds) : ~IsRadixDigit(ds[i], RadixBase(trimmed[2]))
                 THEN NaN
                 ELSE RadixNumber(ds, 1, RadixBase(trimmed[2]), Zero)
        ELSE LET signed == trimmed[1] \in {"+", "-"}
                 body == IF signed THEN Tail(trimmed) ELSE trimmed
                 mag == IF body = InfinityChars THEN Infinity(1)
                        ELSE UnsignedDecimal(body)
             IN  IF signed /\ trimmed[1] = "-" THEN Neg(mag) ELSE mag

\* String(a) of an array of strings: its items joined with commas.
RECURSIVE JoinComma(_)
JoinComma(items) ==
    IF items = <<>> THEN <<>>
    ELSE IF Len(items) = 1 THEN items[1]
    ELSE items[1] \o <<",">> \o JoinComma(Tail(items))

\* Number(req.query.n ?? 40): 40 for an absent key, else the Number of the
\* string, or of the joined strings of a repeated key.
QueryNumber(q) ==
    IF q.kind = "absent" THEN FromInt(40)
    ELSE IF q.kind = "string" THEN StringToNumber(q.chars)
    ELSE StringToNumber(JoinComma(q.items))

\* const sample = Math.max(5, Math.min(200, Number(req.query.n ?? 40)))
sampleOf(q) == MathMax(FromInt(5), MathMin(FromInt(200), QueryNumber(q)))

\* A JSON value of an upstream block object, by its typeof: a missing key is
\* undefined. The numbers the upstream sends are integers.
JUndef == [type |-> "undefined"]
JStr(v) == [type |-> "string", v |-> v]
JNum(v) == [type |-> "number", v |-> v]
JObj(totalFees) == [type |-> "object", totalFees |-> totalFees]

\* The chain the upstream serves: the blocks of heights ChainBase..ChainTip,
\* newest first. A block's hash is named by its height.
MaxChain == 45
ChainTip == 840010
ChainBase == ChainTip - MaxChain + 1
HalvingHeight == 210000

\* The upstream's object for the block of height h. Most blocks are in the
\* mempool.space shape (id, fees under extras.totalFees); every fourth one
\* has hash and fees at the top level; one block has neither id nor hash and
\* its height as a string.
RawBlock(h) ==
    IF h = ChainTip - 12
    THEN [id |-> JUndef, hash |-> JUndef, height |-> JStr(h),
          timestamp |-> JUndef, fees |-> JUndef, extras |-> JUndef,
          reward |-> JUndef]
    ELSE IF h % 4 = 0
    THEN [id |-> JUndef, hash |-> JStr(h), height |-> JNum(h),
          timestamp |-> JNum(1713571767 + (h - 4 * HalvingHeight) * 600),
          fees |-> JNum(1000000 * (1 + (h % 7))), extras |-> JUndef,
          reward |-> JNum(312500000)]
    ELSE [id |-> JStr(h), hash |-> JUndef, height |-> JNum(h),
          timestamp |-> JNum(1713571767 + (h - 4 * HalvingHeight) * 600),
          fees |-> JUndef, extras |-> JObj(JNum(1000000 * (1 + (h % 7)))),
          reward |-> JUndef]

\* The array the upstream answers with: the k blocks below the block whose
\* hash is fromHash (the k newest ones without fromHash), as far as the
\* chain goes.
UpstreamPage(fromHash, k) ==
    LET top == IF fromHash.null THEN ChainTip ELSE fromHash.v - 1
        n == IF top - ChainBase + 1 < k THEN top - ChainBase + 1 ELSE k
    IN  [i \in 1..n |-> RawBlock(top - i + 1)]

\* The body of fetchBlocks's loop: one upstream object as a MinimalBlock.
toMinimalBlock(o) ==
    LET id == IF o.id.type = "string" THEN Some(o.id.v) ELSE NULL
    IN  [id |-> id,
         hash |-> IF o.hash.type = "string" THEN Some(o.hash.v) ELSE id,
         height |-> IF o.height.type = "number" THEN Some(o.height.v) ELSE NULL,
         timestamp |-> IF o.timestamp.type = "number" THEN Some(o.timestamp.v) ELSE NULL,
         fees |-> IF o.fees.type = "number" THEN Some(o.fees.v)
                  ELSE IF o.extras.type = "object" /\ o.extras.totalFees.type = "number"
                  THEN Some(o.extras.totalFees.v)
                  ELSE NULL,
         reward |-> IF o.reward.type = "number" THEN Some(o.reward.v) ELSE NULL]

\* What fetchBlocks returns for an upstream array.
fetchBlocksOf(arr) == [i \in 1..Len(arr) |-> toMinimalBlock(arr[i])]

\* The errors fetchBlocks throws: fetch rejects, the status is not ok, the
\* body is no JSON, the body is no array.
FetchErrors == {"fetch failed", "Blocks fetch failed (503)",
                "Unexpected token < in JSON", "Blocks response not array"}

\* subsidyBTC(height), for a height below 31 halvings.
subsidyBTC(height) ==
    LET halvings == FloorDiv(height, HalvingHeight)
        sub == IF halvings >= 0 THEN Div(FromInt(50), FromInt(2^halvings))
               ELSE Mul(FromInt(50), FromInt(2^(-halvings)))
    IN  IF Gt(sub, Zero) THEN sub ELSE Zero

\* blocks.slice(0, end): end is truncated to an integer (NaN counts as 0,
\* a negative end counts from the back) and capped by the length.
sliceTo(blocks, end) ==
    LET rel == IF end.k = "nan" THEN 0
               ELSE IF end.k = "inf" THEN end.s * (Len(blocks) + 1)
               ELSE Trunc(end)
        final == IF rel < 0 THEN (IF Len(blocks) + rel < 0 THEN 0 ELSE Len(blocks) + rel)
                 ELSE IF rel > Len(blocks) THEN Len(blocks) ELSE rel
    IN  SubSeq(blocks, 1, final)

\* One round of the loop over sampleBlocks: block b is added to the sums.
feesStep(st, b) ==
    [i |-> st.i + 1,
     feesBTC |-> Add(st.feesBTC,
                     Div(IF b.fees.null THEN Zero ELSE FromInt(b.fees.v), Dec(1, 8))),
     subsidyBTCsum |-> IF b.height.null THEN st.subsidyBTCsum
                       ELSE Add(st.subsidyBTCsum, subsidyBTC(b.height.v))]

\* The loop over sampleBlocks, run sixteen rounds at a time: the rounds
\* st.i..stop, then the rest.
RECURSIVE feesRounds(_, _, _)
feesRounds(sb, st, stop) ==
    IF st.i > stop THEN st ELSE feesRounds(sb, feesStep(st, sb[st.i]), stop)

RECURSIVE feesLoop(_, _)
feesLoop(sb, st) ==
    IF st.i > Len(sb) THEN st
    ELSE feesLoop(sb, feesRounds(sb, st,
                      IF st.i + 15 > Len(sb) THEN Len(sb) ELSE st.i + 15))

\* new Date(newestTs * 1000).toISOString(), as the date and the second of
\* the day; without a timestamp the server's clock is read.
asOfISOOf(sb) ==
    IF sb # <<>> /\ ~sb[1].timestamp.null
    THEN [clock |-> FALSE, date |-> ToISODate(FloorDiv(sb[1].timestamp.v, 86400)),
          second |-> sb[1].timestamp.v % 86400]
    ELSE [clock |-> TRUE, date |-> Iso(0, 0, 0), second |-> 0]

\* A response of the handler, as the client reads it.
feesError(status, msg) ==
    [status |-> status, ok |-> FALSE, error |-> Some(msg), feeSharePct |-> NULL,
     sampleBlocks |-> NULL, asOfISO |-> NULL]

\* Lines 104-117: the 200 response for the sums st over sampleBlocks sb.
feesOk(sb, st) ==
    LET denom == Add(st.feesBTC, st.subsidyBTCsum)
        feeSharePct == IF Gt(denom, Zero)
                       THEN Mul(Div(st.feesBTC, denom), FromInt(100))
                       ELSE Zero
    IN  [status |-> 200, ok |-> TRUE, error |-> NULL,
         feeSharePct |-> JsonNumber(feeSharePct),
         sampleBlocks |-> Some(Len(sb)), asOfISO |-> Some(asOfISOOf(sb))]

\* Lines 84-117: what the handler answers once the loop has ended with
\* blocks.
afterLoop(blocks, sample) ==
    IF Len(blocks) = 0
    THEN feesError(502, "No blocks returned from mempool.space")
    ELSE feesOk(sliceTo(blocks, sample),
                feesLoop(sliceTo(blocks, sample),
                         [i |-> 1, feesBTC |-> Zero, subsidyBTCsum |-> Zero]))

\* The loop's test with <= for <: it asks for one page too many.
loopGoesOnInclusive(blocks, sample) == Le(FromInt(Len(blocks)), sample)

\* while (blocks.length < sample)
loopGoesOn(blocks, sample) == Lt(FromInt(Len(blocks)), sample)

\* The n values a client sends.
QueryValues ==
    {Absent,
     Str(<<>>), Str(<<"3">>), Str(<<"1", "2">>), Str(<<"7", ".", "5">>),
     Str(<<"1", "0", "0", "0">>), Str(<<" ", "8", " ">>), Str(<<"1", "e", "1">>),
     Str(<<"-", "4">>), Str(<<"0", "x", "1", "0">>),
     Str(<<"I", "n", "f", "i", "n", "i", "t", "y">>),
     Str(<<"a", "b", "c">>), Str(<<"4", "0", "n">>),
     Arr(<<(<<"6">>)>>), Arr(<<(<<"5">>), (<<"6">>)>>)}

\* The sizes of the pages the upstream answers with (10 in the source's
\* comment; none for an upstream that has nothing to give).
PageSizes == {0, 1, 10}

InitFees ==
    /\ year = 2050
    /\ month = 10
    /\ day = 13
    /\ preset = "Base"
    /\ DefaultDials
    /\ HistoryNotLoaded
    /\ pc = "idle"
    /\ t = NaNTime
    /\ s = 0
    /\ r = NULL
    /\ UiNotMounted
    /\ CpiNotStarted
    /\ OthersNotStarted

\* What a step of /api/fees leaves alone.
besideFees == <<year, month, day, preset, dials, hist, pc, t, s, r, ui, cpi, difficultyApi, live>>

\* The request arrives: line 70, and the loop's first test. A sample that
\* is not above 0 ends the loop at once.
FeesArrives ==
    /\ feesPc = "idle"
    /\ \E q \in QueryValues :
        /\ feesQuery' = q
        /\ feesSample' = Some(sampleOf(q))
        /\ IF loopGoesOn(<<>>, sampleOf(q))
           THEN /\ feesPc' = "paging"
                /\ feesFetches' = 1
                /\ feesResp' = NULL
           ELSE /\ feesPc' = "done"
                /\ feesFetches' = 0
                /\ feesResp' = Some(afterLoop(<<>>, sampleOf(q)))
    /\ UNCHANGED <<feesBlocks, feesFromHash>>
    /\ UNCHANGED besideFees

\* fetchBlocks returns a page: lines 77-83, then the loop's test, and the
\* rest of the handler when the loop ends.
FeesPage ==
    /\ feesPc = "paging"
    /\ \E k \in PageSizes :
        LET page == fetchBlocksOf(UpstreamPage(feesFromHash, k))
            blocks == IF Len(page) = 0 THEN feesBlocks ELSE feesBlocks \o page
            last == page[Len(page)]
            fromHash == IF Len(page) = 0 THEN feesFromHash
                        ELSE IF ~last.hash.null THEN last.hash ELSE last.id
        IN  /\ feesBlocks' = blocks
            /\ feesFromHash' = fromHash
            /\ IF Len(page) # 0 /\ ~fromHash.null /\ loopGoesOn(blocks, feesSample.v)
               THEN /\ feesFetches' = feesFetches + 1
                    /\ UNCHANGED <<feesPc, feesResp>>
               ELSE /\ feesPc' = "done"
                    /\ feesResp' = Some(afterLoop(blocks, feesSample.v))
                    /\ UNCHANGED feesFetches
    /\ UNCHANGED <<feesQuery, feesSample>>
    /\ UNCHANGED besideFees

\* fetchBlocks throws: the catch of lines 118-121.
FeesFetchThrows ==
    /\ feesPc = "paging"
    /\ \E msg \in FetchErrors :
        feesResp' = Some(feesError(500, msg))
    /\ feesPc' = "done"
    /\ UNCHANGED <<feesQuery, feesSample, feesBlocks, feesFromHash, feesFetches>>
    /\ UNCHANGED besideFees

NextFees ==
    \/ FeesArrives
    \/ FeesPage
    \/ FeesFetchThrows

SpecFees == InitFees /\ [][NextFees]_vars

\* ------------------------------------------------------- /api/difficulty
\* What a fetch settles to: a response (of any HTTP status) with its body
\* text, or a rejection (no connection).
HttpResponse(status, text) ==
    [rejected |-> FALSE, status |-> status, text |-> text, error |-> ""]
FetchRejected(msg) ==
    [rejected |-> TRUE, status |-> 0, text |-> <<>>, error |-> msg]

\* r.ok of a response
ResponseOk(res) == ~res.rejected /\ res.status \in 200..299

\* Number.isInteger(a)
NumberIsInteger(a) ==
    /\ IsFinite(a)
    /\ \/ a.m = 0
       \/ a.e >= 0
       \/ a.e >= -7 /\ a.m % (10^(-a.e)) = 0

\* a % n for an integer a below 2^31: the remainder has the sign of a.
Remainder(a, n) ==
    LET v == Trunc(a)
    IN  FromInt(IF v < 0 THEN -((-v) % n) ELSE v % n)

EpochBlocks == 2016

\* A Date as the second since 1970 and the millisecond in it, and
\* toISOString() of it: the date, the second of the day, the millisecond.
Instant(sec, ms) == [sec |-> sec, ms |-> ms]
toISOString(at) ==
    [date |-> ToISODate(FloorDiv(at.sec, 86400)), second |-> at.sec % 86400,
     ms |-> at.ms]

\* const blocksInto = tipHeight % 2016
blocksIntoOf(tipHeight) == Remainder(tipHeight, EpochBlocks)

\* The next retarget taken as the multiple of 2016 at or above the tip.
nextRetargetAtOrAbove(tipHeight, blocksInto) ==
    Add(tipHeight, Remainder(Sub(FromInt(EpochBlocks), blocksInto), EpochBlocks))

\* const nextRetargetHeight = tipHeight - blocksInto + 2016
nextRetargetHeightOf(tipHeight, blocksInto) ==
    Add(Sub(tipHeight, blocksInto), FromInt(EpochBlocks))

\* Lines 39-42: the epoch object for the tip height, read at the instant now.
epochOf(tipHeight, blocksInto, now) ==
    [blocksRemaining |-> Sub(FromInt(EpochBlocks), blocksInto),
     blocksIntoEpoch |-> blocksInto,
     progressPct |-> Mul(Div(blocksInto, FromInt(EpochBlocks)), FromInt(100)),
     nextRetargetHeight |-> nextRetargetHeightOf(tipHeight, blocksInto),
     estRetargetDateISO |->
         toISOString(Instant(now.sec + Trunc(Sub(FromInt(EpochBlocks), blocksInto)) * 600,
                             now.ms))]

\* The catch of line 61.
difficultyError(msg) ==
    [status |-> 200, ok |-> FALSE, error |-> Some(msg), difficulty |-> NULL,
     difficulty_trillions |-> NULL, epoch |-> NULL, asOfISO |-> NULL]

\* Lines 35-59, for the Numbers read from the two bodies.
difficultyOfNumbers(difficulty, tipHeight, now) ==
    IF ~IsFinite(difficulty) THEN difficultyError("Bad difficulty from source")
    ELSE IF ~NumberIsInteger(tipHeight) THEN difficultyError("Bad height from mempool")
    ELSE [status |-> 200, ok |-> TRUE, error |-> NULL,
          difficulty |-> JsonNumber(difficulty),
          difficulty_trillions |-> JsonNumber(Div(difficulty, Dec(1, 12))),
          epoch |-> Some(epochOf(tipHeight, blocksIntoOf(tipHeight), now)),
          asOfISO |-> Some(toISOString(now))]

\* Lines 30-59, once both fetches have given a response.
difficultyResponse(dRes, hRes, now) ==
    difficultyOfNumbers(StringToNumber(dRes.text), StringToNumber(hRes.text), now)

\* The bodies blockchain.info answers with: the difficulty in two notations,
\* 0, nothing, Infinity, an error text.
DifficultyBodies ==
    {<<"1", ".", "5", "6", "E", "1", "4">>,
     <<"1", "1", "4", "1", "6", "7", "2", "7", "0", "7", "1", "6", "4", "0", "7">>,
     <<"0">>, <<>>, <<"I", "n", "f", "i", "n", "i", "t", "y">>,
     <<"B", "a", "d", " ", "G", "a", "t", "e", "w", "a", "y">>}

\* The bodies mempool.space answers with: heights at the start, at the end
\* and inside an epoch, with a line end, a fraction, nothing, an error text.
HeightBodies ==
    {<<"0">>, <<"2", "0", "1", "5">>, <<"2", "0", "1", "6">>, <<"4", "0", "3", "1">>,
     <<"8", "4", "0", "0", "0", "0">>, <<"9", "1", "9", "2", "9", "5">>,
     <<"9", "1", "9", "2", "9", "6">>, <<"9", "1", "9", "2", "9", "7", "\n">>,
     <<"1", "2", ".", "5">>, <<>>,
     <<"B", "a", "d", " ", "G", "a", "t", "e", "w", "a", "y">>}

HttpStatuses == {200, 503}

\* Date.now() when the response is built.
DifficultyInstants == {Instant(1762214400, 0), Instant(1762300799, 999)}

InitDifficulty ==
    /\ year = 2050
    /\ month = 10
    /\ day = 13
    /\ preset = "Base"
    /\ DefaultDials
    /\ HistoryNotLoaded
    /\ pc = "idle"
    /\ t = NaNTime
    /\ s = 0
    /\ r = NULL
    /\ UiNotMounted
    /\ CpiNotStarted
    /\ OthersNotStarted

\* What a step of /api/difficulty leaves alone.
besideDifficulty == <<year, month, day, preset, dials, hist, pc, t, s, r, ui, cpi, fees, live>>

\* The request arrives: both fetches of lines 25-28 are sent.
DifficultyArrives ==
    /\ diffPc = "idle"
    /\ diffPc' = "awaiting"
    /\ UNCHANGED <<diffRes, heightRes, diffResp>>
    /\ UNCHANGED besideDifficulty

\* With both responses in, Promise.all is fulfilled and the handler runs to
\* its end.
DifficultySettled(dRes, hRes) ==
    IF dRes.null \/ hRes.null
    THEN UNCHANGED <<diffPc, diffResp>>
    ELSE /\ diffPc' = "done"
         /\ \E now \in DifficultyInstants :
                diffResp' = Some(difficultyResponse(dRes.v, hRes.v, now))

\* blockchain.info answers.
DifficultyFetchResolves ==
    /\ diffPc = "awaiting"
    /\ diffRes.null
    /\ \E status \in HttpStatuses, text \in DifficultyBodies :
        /\ diffRes' = Some(HttpResponse(status, text))
        /\ DifficultySettled(Some(HttpResponse(status, text)), heightRes)
    /\ UNCHANGED heightRes
    /\ UNCHANGED besideDifficulty

\* mempool.space answers.
HeightFetchResolves ==
    /\ diffPc = "awaiting"
    /\ heightRes.null
    /\ \E status \in HttpStatuses, text \in HeightBodies :
        /\ heightRes' = Some(HttpResponse(status, text))
        /\ DifficultySettled(diffRes, Some(HttpResponse(status, text)))
    /\ UNCHANGED diffRes
    /\ UNCHANGED besideDifficulty

\* One of the fetches rejects: Promise.all rejects at once and the catch of
\* line 61 answers, whatever the other fetch does.
DifficultyFetchRejects ==
    /\ diffPc = "awaiting"
    /\ \/ /\ diffRes.null
          /\ diffRes' = Some(FetchRejected("fetch failed"))
          /\ UNCHANGED heightRes
       \/ /\ heightRes.null
          /\ heightRes' = Some(FetchRejected("fetch failed"))
          /\ UNCHANGED diffRes
    /\ diffPc' = "done"
    /\ diffResp' = Some(difficultyError("fetch failed"))
    /\ UNCHANGED besideDifficulty

NextDifficulty ==
    \/ DifficultyArrives
    \/ DifficultyFetchResolves
    \/ HeightFetchResolves
    \/ DifficultyFetchRejects

SpecDifficulty == InitDifficulty /\ [][NextDifficulty]_vars

\* ------------------------------------------------------------ live cards
\* The calls of one fetcher that may await their answer at once.
MaxLiveInFlight == 2

\* The cards with a "Sync now" button (disabled while the card is syncing).
CardsWithButton == {"diff", "fee", "hash"}

\* The message of a failed call: the answer's error, or the fetcher's own.
LiveErrors == {"API error"}

InitLive ==
    /\ year = 2050
    /\ month = 10
    /\ day = 13
    /\ preset = "Base"
    /\ DefaultDials
    /\ HistoryNotLoaded
    /\ pc = "idle"
    /\ t = NaNTime
    /\ s = 0
    /\ r = NULL
    /\ UiNotMounted
    /\ CpiNotStarted
    /\ OthersNotStarted

\* What a step of the live cards leaves alone.
besideLive == <<year, month, day, preset, dials, hist, pc, t, s, r, ui, cpi, fees, difficultyApi>>

\* The first two statements of each fetcher, for the cards cs:
\* setSyncing(true); setErr(null), and the fetch is sent.
startSync(cs) ==
    /\ liveSyncing' = [c \in Cards |-> IF c \in cs THEN TRUE ELSE liveSyncing[c]]
    /\ liveErr' = [c \in Cards |-> IF c \in cs THEN NULL ELSE liveErr[c]]
    /\ liveInFlight' = [c \in Cards |-> IF c \in cs THEN liveInFlight[c] + 1
                                        ELSE liveInFlight[c]]

\* The mount effect: doAll() is called and the interval is set.
LiveMount ==
    /\ ~liveMounted
    /\ liveMounted' = TRUE
    /\ startSync(Cards)
    /\ UNCHANGED besideLive

\* The interval fires: doAll() starts all five fetchers, whatever is still
\* awaited.
IntervalFires ==
    /\ liveMounted
    /\ \A c \in Cards : liveInFlight[c] < MaxLiveInFlight
    /\ startSync(Cards)
    /\ UNCHANGED liveMounted
    /\ UNCHANGED besideLive

\* onClick of "Sync now" on a card whose button is not disabled.
SyncNow ==
    /\ liveMounted
    /\ \E c \in CardsWithButton :
        /\ ~liveSyncing[c]
        /\ liveInFlight[c] < MaxLiveInFlight
        /\ startSync({c})
    /\ UNCHANGED liveMounted
    /\ UNCHANGED besideLive

\* A call gets an ok: true answer: the values are set, then the finally
\* block runs setSyncing(false).
LiveAnswerOk ==
    /\ \E c \in Cards :
        /\ liveInFlight[c] > 0
        /\ liveSyncing' = [liveSyncing EXCEPT ![c] = FALSE]
        /\ liveInFlight' = [liveInFlight EXCEPT ![c] = @ - 1]
    /\ UNCHANGED <<liveMounted, liveErr>>
    /\ UNCHANGED besideLive

\* A call fails (the fetch rejects, the body is no JSON, or the answer is
\* not ok): the catch sets the error, then the finally block runs
\* setSyncing(false).
LiveAnswerFails ==
    /\ \E c \in Cards, msg \in LiveErrors :
        /\ liveInFlight[c] > 0
        /\ liveErr' = [liveErr EXCEPT ![c] = Some(msg)]
        /\ liveSyncing' = [liveSyncing EXCEPT ![c] = FALSE]
        /\ liveInFlight' = [liveInFlight EXCEPT ![c] = @ - 1]
    /\ UNCHANGED liveMounted
    /\ UNCHANGED besideLive

NextLive ==
    \/ LiveMount
    \/ IntervalFires
    \/ SyncNow
    \/ LiveAnswerOk
    \/ LiveAnswerFails

SpecLive == InitLive /\ [][NextLive]_vars

\* ------------------------------------------------------ halving schedule
\* Order of two ISO dates, field by field (the order of the strings).
IsoLt(a, b) ==
    \/ a.y < b.y
    \/ a.y = b.y /\ a.m < b.m
    \/ a.y = b.y /\ a.m = b.m /\ a.d < b.d
IsoLe(a, b) == a = b \/ IsoLt(a, b)

\* A subsidy given in thousandths of a BTC (a multiple of 3.125 BTC), in units.
MilliBTC(x) == (x \div 3125) * (BTC50 \div 16)

\* The published halving checkpoints.
Published == <<
    [start |-> Iso(2009, 1, 3),   subsidy |-> MilliBTC(50000)],
    [start |-> Iso(2012, 11, 28), subsidy |-> MilliBTC(25000)],
    [start |-> Iso(2016, 7, 9),   subsidy |-> MilliBTC(12500)],
    [start |-> Iso(2020, 5, 11),  subsidy |-> MilliBTC(6250)],
    [start |-> Iso(2024, 4, 20),  subsidy |-> MilliBTC(3125)] >>

\* The start of the era after published checkpoint i.
NextStart(i) == IF i < Len(Published) THEN Published[i + 1].start ELSE ALL_ERAS[i + 1].start

Called == pc = "done" /\ IsCalendarDate(targetISO)

FourYearsEarlier(iso) == Iso(iso.y - 4, iso.m, iso.d)
NextDay(iso) == ToISODate(MakeDay(iso.y, iso.m, iso.d) + 1)
LastEra == ALL_ERAS[Len(ALL_ERAS)]

\* C1: for every published checkpoint, subsidyOnDate returns its subsidy for
\* every date from its start up to (not including) the next era's start, and
\* the previous checkpoint's subsidy for the dates of the previous era, which
\* lie strictly before its start.
C1_KnownCheckpoints ==
    Called =>
        \A i \in 1..Len(Published) :
            /\ (IsoLe(Published[i].start, targetISO) /\ IsoLt(targetISO, NextStart(i)))
                   => s = Published[i].subsidy
            /\ (i > 1 /\ IsoLe(Published[i - 1].start, targetISO)
                      /\ IsoLt(targetISO, Published[i].start))
                   => s = Published[i - 1].subsidy

\* C1 witness: the call on a checkpoint's own start date returned its subsidy.
C1_Witness ==
    Called /\ targetISO = Iso(2016, 7, 9) /\ s = MilliBTC(12500)

\* C2 as stated: the subsidy never rises from one day to the next, and for every
\* date after 2024-04-20 it is exactly half of the subsidy four calendar years
\* earlier.
C2_Original ==
    (Called /\ IsCalendarDate(NextDay(targetISO)) /\ IsCalendarDate(FourYearsEarlier(targetISO)))
        => /\ subsidyOfTime(DateOf(NextDay(targetISO))) <= s
           /\ IsoLt(Iso(2024, 4, 20), targetISO)
                  => 2 * s = subsidyOfTime(DateOf(FourYearsEarlier(targetISO)))

\* C2 amended: the subsidy never rises from one day to the next, and for every
\* date from 2024-05-11 (four years after the 2020-05-11 checkpoint) up to, not
\* including, 2124-04-20 (four years after the last era of the table) it is
\* exactly half of the subsidy four calendar years earlier.
C2_Halving ==
    Called =>
        /\ subsidyOfTime(DateOf(NextDay(targetISO))) <= s
        /\ (/\ IsCalendarDate(FourYearsEarlier(targetISO))
            /\ IsoLe(Iso(2024, 5, 11), targetISO)
            /\ IsoLt(targetISO, Iso(2124, 4, 20)))
               => 2 * s = subsidyOfTime(DateOf(FourYearsEarlier(targetISO)))

\* C2 witness: a call on the first generated boundary returned half of the
\* subsidy of four years earlier.
C2_Witness ==
    /\ Called /\ targetISO = Iso(2028, 4, 20) /\ s = MilliBTC(3125) \div 2
    /\ subsidyOfTime(DateOf(Iso(2024, 4, 20))) = MilliBTC(3125)

\* C3 as stated: the table has a halving boundary 100 years after 2024-04-20,
\* so on 2124-04-20 the subsidy is half of what it was on 2120-04-20.
C3_Original ==
    (Called /\ targetISO = Iso(2124, 4, 20))
        => /\ IsoLe(Iso(2124, 4, 20), LastEra.start)
           /\ 2 * s = subsidyOfTime(DateOf(Iso(2120, 4, 20)))

\* C4: the era table is strictly ascending by start date, starts at 50 BTC,
\* halves exactly from each entry to the next, and every generated entry starts
\* exactly four calendar years after its predecessor (the table every call of
\* subsidyOnDate walks).
C4_EraTable ==
    pc \in {"idle", "done"} =>
        /\ \A i \in 1..(Len(ALL_ERAS) - 1) : IsoLt(ALL_ERAS[i].start, ALL_ERAS[i + 1].start)
        /\ ALL_ERAS[1].subsidy = MilliBTC(50000)
        /\ \A i \in 2..Len(ALL_ERAS) : 2 * ALL_ERAS[i].subsidy = ALL_ERAS[i - 1].subsidy
        /\ \A i \in (Len(KNOWN_ERAS) + 1)..Len(ALL_ERAS) :
               FourYearsEarlier(ALL_ERAS[i].start) = ALL_ERAS[i - 1].start

\* C4 witness: a call has walked the whole table and returned the subsidy of
\* its last, generated entry.
C4_Witness ==
    Called /\ Len(ALL_ERAS) = 29 /\ targetISO = LastEra.start /\ s = LastEra.subsidy

\* C5: for every date before 2009-01-03, subsidyOnDate returns 50 BTC.
C5_BeforeGenesis ==
    (Called /\ IsoLt(targetISO, Iso(2009, 1, 3))) => s = MilliBTC(50000)

\* C5 witness: a call on the day before the first era returned 50 BTC.
C5_Witness ==
    Called /\ targetISO = Iso(2009, 1, 2) /\ ~TimeGe(t, DateOf(ALL_ERAS[1].start))
           /\ s = MilliBTC(50000)

\* ------------------------------------------------------ network energy share
Priced == pc = "done" /\ t.ok
YearOfCall == GetUTCFullYear(t)

\* The table read by the call has a measured (numeric) share for year y.
MeasuredIn(y) ==
    /\ ~histByYear.null
    /\ y \in DOMAIN histByYear.v
    /\ ~histByYear.v[y].share.null

\* |a - b| <= 10^-4 |b|: equal within the tolerance of the 8-digit arithmetic.
Abs(a) == IF a.k # "nan" /\ a.s = -1 THEN Neg(a) ELSE a
Close(a, b) == Le(Abs(Sub(a, b)), Mul(Dec(1, -4), Abs(b)))

\* A date in the year after the call's.
NextYearTime == DateOf(Iso(YearOfCall + 1, 10, 13))

\* The captured state with the table entry for year y removed.
WithoutEntry(y) ==
    [Captured EXCEPT !.histByYear =
        Some([z \in (DOMAIN histByYear.v) \ {y} |-> histByYear.v[z]])]

\* C6: whenever the table has a measured entry for the calendar year of the
\* valuation date, the share priceFromEnergyCap uses is exactly that entry's
\* share, whatever the preset and the cap-share percentage.
C6_MeasuredShare ==
    (Priced /\ MeasuredIn(YearOfCall)) => r.share = histByYear.v[YearOfCall].share.v

\* C6 witness: a Bearish call with a low cap share in a measured year returned
\* the measured share.
C6_Witness ==
    /\ Priced /\ MeasuredIn(YearOfCall) /\ YearOfCall = 2024
    /\ preset = "Bearish" /\ capSharePct = Dec(3, -1)
    /\ r.share = histByYear.v[2024].share.v
    /\ r.share # projectedShare(t, preset, Captured)

\* C7 as stated, taken where the anchor ratio anchorShare / capShareFraction
\* needs no clamping: at the anchor year the projected branch (the table entry
\* for that year removed) returns the anchor's historical share.
C7_Original ==
    (Priced /\ ~histLastYear.null /\ ~histLastShare.null
            /\ YearOfCall = histLastYear.v /\ MeasuredIn(YearOfCall)
            /\ Gt(capShareFraction(preset, Captured), Zero)
            /\ a0(preset, Captured) = a0Raw(preset, Captured))
        => Close(priceFromEnergyCap(t, preset, WithoutEntry(YearOfCall)).share,
                 histLastShare.v)

\* C8: beyond the anchor year the projected share never falls from one year to
\* the next, for every preset, cap share and anchor.
C8_Monotone ==
    (Priced /\ YearOfCall > baseYear(Captured) /\ ~MeasuredIn(YearOfCall)
            /\ ~MeasuredIn(YearOfCall + 1))
        => Le(r.share, priceFromEnergyCap(NextYearTime, preset, Captured).share)

\* C8 witness: a projected share beyond the anchor that is strictly below the
\* next year's.
C8_Witness ==
    /\ Priced /\ YearOfCall > baseYear(Captured) /\ ~MeasuredIn(YearOfCall)
    /\ ~histLastYear.null
    /\ Lt(r.share, priceFromEnergyCap(NextYearTime, preset, Captured).share)

\* C9: every share of the projected branch lies between capShareFraction * 1e-6
\* and capShareFraction.
C9_Bounds ==
    (Priced /\ ~MeasuredIn(YearOfCall))
        => /\ Le(Mul(capShareFraction(preset, Captured), Dec(1, -6)), r.share)
           /\ Le(r.share, capShareFraction(preset, Captured))

\* C9 witness: a projected share held up by the floor, 1e-6 of a positive ceiling.
C9_Witness ==
    /\ Priced /\ ~MeasuredIn(YearOfCall)
    /\ Gt(capShareFraction(preset, Captured), Zero)
    /\ Lt(logistic(YearNumber(t), preset, Captured), ADOPTION.floor)
    /\ r.share = Mul(capShareFraction(preset, Captured), Dec(1, -6))

\* C10: when capShareFraction is not positive the projected branch divides
\* nothing by it: a0Raw and a0 are the default 0.01, and y0 and the share are
\* finite.
C10_ZeroCap ==
    (Priced /\ ~MeasuredIn(YearOfCall) /\ ~Gt(capShareFraction(preset, Captured), Zero))
        => /\ a0Raw(preset, Captured) = Dec(1, -2)
           /\ a0(preset, Captured) = Dec(1, -2)
           /\ IsFinite(y0(preset, Captured))
           /\ IsFinite(r.share)

\* C10 witness: a projected call with capSharePct = 0 returned the finite share 0.
C10_Witness ==
    /\ Priced /\ ~MeasuredIn(YearOfCall) /\ capSharePct = Zero
    /\ capShareFraction(preset, Captured) = Zero
    /\ r.share = Zero

\* The table in use has an entry for year y whose share is missing (JSON null).
MissingShareIn(y) ==
    /\ ~histByYear.null
    /\ y \in DOMAIN histByYear.v
    /\ histByYear.v[y].share.null

TableEmpty == histByYear.null \/ DOMAIN histByYear.v = {}

\* C12 as stated: the anchor year is the greatest year of the table in use and
\* the anchor share is the table's share at that year (0.001 where that share
\* is missing); with an empty table the anchor is (2025, 0.001). Taken where
\* the ceiling is positive, so that the anchor share is the one divided.
C12_Original ==
    (Priced /\ Gt(capShareFraction(preset, Captured), Zero)) =>
        /\ ~TableEmpty =>
               /\ baseYear(Captured) = SetMax(DOMAIN histByYear.v)
               /\ anchorShare(Captured) =
                      IF MissingShareIn(baseYear(Captured)) THEN Dec(1, -3)
                      ELSE histByYear.v[baseYear(Captured)].share.v
        /\ TableEmpty =>
               /\ baseYear(Captured) = 2025
               /\ anchorShare(Captured) = Dec(1, -3)

PresetRank == [Bearish |-> 1, Base |-> 2, Bullish |-> 3]

\* C13: for the date, dials and table of a call, the fair price of every
\* preset ranked below the call's is not above the call's, and that of every
\* preset ranked above is not below it (Bearish <= Base <= Bullish).
C13_ScenarioOrder ==
    Priced =>
        \A q \in Presets :
            /\ PresetRank[q] < PresetRank[preset]
                   => Le(priceFromEnergyCap(t, q, Captured).fairPerBTC, r.fairPerBTC)
            /\ PresetRank[q] > PresetRank[preset]
                   => Le(r.fairPerBTC, priceFromEnergyCap(t, q, Captured).fairPerBTC)

\* C13 witness: a Base call on the projected branch, before the anchor year,
\* priced strictly between Bearish and Bullish.
C13_Witness ==
    /\ Priced /\ preset = "Base" /\ ~MeasuredIn(YearOfCall)
    /\ ~histLastYear.null /\ YearOfCall < histLastYear.v
    /\ Lt(priceFromEnergyCap(t, "Bearish", Captured).fairPerBTC, r.fairPerBTC)
    /\ Lt(r.fairPerBTC, priceFromEnergyCap(t, "Bullish", Captured).fairPerBTC)

\* 1/a0 - 1, the argument of the logit.
Odds(p, c) == Sub(Div(One, a0(p, c)), One)

\* C17 as stated: a0 lies in the open interval (floor, 1 - floor), 1/a0 - 1 is
\* strictly positive and y0 is finite.
C17_Original ==
    (Priced /\ ~MeasuredIn(YearOfCall))
        => /\ Lt(ADOPTION.floor, a0(preset, Captured))
           /\ Lt(a0(preset, Captured), Sub(One, ADOPTION.floor))
           /\ Gt(Odds(preset, Captured), Zero)
           /\ IsFinite(y0(preset, Captured))

\* C17 amended: a0 lies in the closed interval [floor + 1e-6, 1 - 1e-6], both
\* ends of which are taken, 1/a0 - 1 is strictly positive and y0 is finite.
C17_Clamp ==
    (Priced /\ ~MeasuredIn(YearOfCall))
        => /\ Le(Add(ADOPTION.floor, Dec(1, -6)), a0(preset, Captured))
           /\ Le(a0(preset, Captured), Sub(One, Dec(1, -6)))
           /\ Gt(Odds(preset, Captured), Zero)
           /\ IsFinite(y0(preset, Captured))

\* C17 witness: an anchor share above the ceiling, a0 held at 1 - 1e-6, and a
\* finite midpoint.
C17_Witness ==
    /\ Priced /\ ~MeasuredIn(YearOfCall)
    /\ Gt(a0Raw(preset, Captured), One)
    /\ a0(preset, Captured) = Sub(One, Dec(1, -6))
    /\ Gt(Odds(preset, Captured), Zero)
    /\ IsFinite(y0(preset, Captured))

\* ------------------------------------------------------------ chart series
\* The month and day the points may be anchored on: 1 October, or 30 September
\* where the browser's zone is behind UTC.
SeriesAnchors == {<<10, 1>>, <<9, 30>>}

\* C14: the computed series has exactly 42 points, its i-th point is for the
\* year 2008 + i (2009 .. 2050, each once, ascending), and there is one month
\* and day on which every point's price is the valuation of its year.
C14_Series ==
    pc = "done" =>
        /\ Len(seriesFull) = 42
        /\ \A i \in 1..Len(seriesFull) : seriesFull[i].year = 2008 + i
        /\ \E md \in SeriesAnchors :
               \A i \in 1..Len(seriesFull) :
                   seriesFull[i].price =
                       seriesPrice(priceFromEnergyCap(DateOf(Iso(2008 + i, md[1], md[2])),
                                                      preset, Captured), showReal)

\* C14 witness: a series computed for Base on the default dials with no
\* history table, from 2009 to 2050, with a positive price at both ends.
C14_Witness ==
    /\ pc = "done" /\ preset = "Base" /\ capSharePct = Dec(15, -1) /\ histByYear.null
    /\ ~showReal
    /\ Len(seriesFull) = 42
    /\ seriesFull[1].year = 2009 /\ seriesFull[42].year = 2050
    /\ Gt(seriesFull[1].price, Zero) /\ Gt(seriesFull[42].price, Zero)

\* ------------------------------------------------------------- valuation
\* Steps 2 to 6 of the chain, from the share the result reports.
CostPerBlockUSD ==
    LET btcTWh == Mul(worldElectricityTWh(t), r.share)
        energyPerBlockWh == Div(Mul(btcTWh, Dec(1, 12)), BLOCKS_PER_YEAR)
    IN  Mul(Mul(Div(energyPerBlockWh, FromInt(1000)),
                electricityPriceUSDkWh(t, preset, Captured)), overheadPhi)

\* C15: the result of every valuation satisfies S = subsidy of the date,
\* S_eff = S * (1 + feesPct/100), floorPerBTC = costPerBlockUSD / S_eff,
\* fairPerBTC = floorPerBTC * markup of the preset, fairPerBTCReal =
\* fairPerBTC / cpiFactor(date), and fairPerBTC >= floorPerBTC whenever the
\* floor is not negative.
C15_FormulaChain ==
    Priced =>
        /\ r.S = SubsidyNumber(subsidyOfTime(t))
        /\ r.S_eff = Mul(r.S, Add(One, Div(feesPct, FromInt(100))))
        /\ r.floorPerBTC = Div(CostPerBlockUSD, r.S_eff)
        /\ r.fairPerBTC = Mul(r.floorPerBTC, PRESETS[preset].markup)
        /\ r.fairPerBTCReal = Div(r.fairPerBTC, cpiFactor(t, Captured))
        /\ Ge(r.floorPerBTC, Zero) => Ge(r.fairPerBTC, r.floorPerBTC)

\* C15 witness: a Bearish valuation with the live fee share and the live CPI
\* taken over, whose fair price is above a positive floor.
C15_Witness ==
    /\ Priced /\ preset = "Bearish"
    /\ feesPct = Dec(23, -1) /\ cpiPct = Dec(29, -1)
    /\ r.S_eff = Mul(r.S, Dec(1023, -3))
    /\ Gt(r.floorPerBTC, Zero) /\ Gt(r.fairPerBTC, r.floorPerBTC)
    /\ Lt(r.fairPerBTCReal, r.fairPerBTC)

\* The explicit inputs of a valuation: date, preset, dials and history table.
Inputs == <<year, month, day, preset, dials, hist>>

\* r is the valuation of the explicit inputs as they are now, and the callback
\* that computed it holds no value that differs from them.
ResultOfInputs ==
    pc = "done" =>
        /\ \A tv \in ParseDate(targetISO) : r = priceFromEnergyCap(tv, preset, Captured)
        /\ ClosureState(hooks.v.priceFromEnergyCap) = Captured
        /\ hooks.v.priceFromEnergyCap.scope.anchoredAdoption.scope.capSharePct = capSharePct

\* C16: at every moment the result shown is the valuation of the explicit
\* inputs of that moment, so two calls on equal inputs return equal results
\* whatever updates, syncs and renders came between them; and a render that
\* leaves the explicit inputs as they are leaves the result as it is.
C16_Deterministic ==
    /\ []ResultOfInputs
    /\ [][(pc = "done" /\ Inputs' = Inputs) => r' = r]_vars

\* C16 witness: after the history table has arrived, a live CPI value has been
\* taken over and the cap share has been changed, the inputs are what they were
\* at an earlier render but for these, and r is their valuation.
C16_Witness ==
    /\ pc = "done" /\ ~histByYear.null /\ cpiPct = Dec(29, -1) /\ capSharePct = Dec(3, -1)
    /\ year = 2050 /\ preset = "Base"
    /\ r = priceFromEnergyCap(DateOf(targetISO), preset, Captured)
    /\ Gt(r.fairPerBTC, Zero)

\* C18: in /api/cpi, once a request has completed a successful BLS fetch,
\* every response produced afterwards by the same process (BLS_API_KEY set)
\* has ok: true; when the upstream fetch of that request failed or gave no
\* usable data, the body is the cached payload with cached: true.
C18_StaleServed ==
    (~cpiResp.null /\ cpiResp.v.fetchedBefore /\ cpiKey) =>
        /\ cpiResp.v.body.ok
        /\ cpiResp.v.failed =>
               /\ cpiResp.v.body.cached
               /\ ~cpiResp.v.cacheBefore.null
               /\ cpiResp.v.body.payload = cpiResp.v.cacheBefore.v.payload

\* A request went to BLS after a successful fetch, BLS failed, and the cached
\* payload was sent.
C18_Witness ==
    /\ ~cpiResp.null
    /\ cpiKey
    /\ cpiResp.v.fetchedBefore
    /\ cpiResp.v.upstream
    /\ cpiResp.v.failed
    /\ cpiResp.v.body.ok
    /\ cpiResp.v.body.cached

\* The age in milliseconds of the cache entry a request found on arrival.
AgeAtArrival(now, seen) == now - seen.v.ts

\* C19: in /api/cpi a request without force=1 that arrives less than 7 days
\* after the instant of the cache entry (the arrival of the request whose
\* fetch filled it) is answered from the cache, with cached: true and
\* cacheAgeSeconds the whole seconds since that instant, and no BLS request is
\* sent; a request with force=1, or one that finds no entry or an entry of 7
\* days or more, sends the BLS request when BLS_API_KEY is set.
C19_CacheWindow ==
    /\ \A q \in cpiReqs :
           /\ cpiKey
           /\ \/ q.force
              \/ q.seen.null
              \/ AgeAtArrival(q.now, q.seen) >= 7 * 24 * 60 * 60 * 1000
    /\ ~cpiResp.null =>
           LET a == cpiResp.v
               inWindow == /\ ~a.force
                           /\ ~a.cacheAtArrival.null
                           /\ AgeAtArrival(a.now, a.cacheAtArrival) < 7 * 24 * 60 * 60 * 1000
           IN  /\ inWindow =>
                      /\ ~a.upstream
                      /\ a.body.ok
                      /\ a.body.cached
                      /\ a.body.payload = a.cacheAtArrival.v.payload
                      /\ a.body.cacheAgeSeconds
                             = AgeAtArrival(a.now, a.cacheAtArrival) \div 1000
               /\ (~inWindow /\ cpiKey) => a.upstream

\* A request one millisecond before the expiry was answered from the cache
\* with an age of 604799 seconds, and a request at the expiry waits for BLS.
C19_Witness ==
    /\ ~cpiResp.null
    /\ ~cpiResp.v.upstream
    /\ ~cpiResp.v.force
    /\ cpiResp.v.body.ok
    /\ cpiResp.v.body.cached
    /\ cpiResp.v.body.cacheAgeSeconds = 604799
    /\ \E q \in cpiReqs :
           /\ ~q.force
           /\ ~q.seen.null
           /\ AgeAtArrival(q.now, q.seen) = 7 * 24 * 60 * 60 * 1000

\* C20: in /api/cpi the cache is written only by a request whose BLS fetch
\* and parse succeeded, with that request's now and payload; every other
\* step (a request served from the cache, a missing key, a failed fetch, the
\* arrival of a request, the passing of time) leaves the cache as it was.
C20_CacheWrittenOnSuccess ==
    IF cpiResp.null THEN cpiCache.null
    ELSE IF cpiResp.v.upstream /\ ~cpiResp.v.failed
         THEN /\ cpiResp.v.body.ok
              /\ ~cpiResp.v.body.cached
              /\ cpiCache = Some([ts |-> cpiResp.v.now, payload |-> cpiResp.v.body.payload])
         ELSE cpiCache = cpiResp.v.cacheBefore

\* A BLS fetch failed while there was a cache entry, and the entry is still
\* there.
C20_Witness ==
    /\ ~cpiResp.null
    /\ cpiResp.v.upstream
    /\ cpiResp.v.failed
    /\ ~cpiResp.v.cacheBefore.null
    /\ cpiCache = cpiResp.v.cacheBefore


\* C21: in /api/cpi the timestamp of the cache entry never decreases: a step
\* that replaces a cache entry puts in one whose ts is not older, whatever
\* the order in which overlapping requests that missed the cache finish.
C21_Original ==
    [][(~cpiCache.null /\ ~cpiCache'.null) => cpiCache'.v.ts >= cpiCache.v.ts]_vars

\* C22: in /api/fees, whatever the query parameter n is (absent, numeric or
\* a non-numeric string), the sample size is a number from 5 to 200, it is 40
\* when n is absent, and the handler asks the upstream for blocks at least
\* once.
C22_Original ==
    ~feesSample.null =>
        /\ Ge(feesSample.v, FromInt(5))
        /\ Le(feesSample.v, FromInt(200))
        /\ feesQuery.kind = "absent" => feesSample.v = FromInt(40)
        /\ feesFetches >= 1

\* C23 as stated: the /api/fees loop makes at most `sample` page fetches, an
\* ok: true response reports 1 <= sampleBlocks <= sample, and a loop that
\* ends without a block is answered with 502 and ok: false.
C23_Original ==
    ~feesSample.null =>
        /\ ~Gt(FromInt(feesFetches), feesSample.v)
        /\ (~feesResp.null /\ feesResp.v.ok) =>
               /\ feesResp.v.sampleBlocks.v >= 1
               /\ Le(FromInt(feesResp.v.sampleBlocks.v), feesSample.v)
        /\ (~feesResp.null /\ feesResp.v.status # 500 /\ Len(feesBlocks) = 0) =>
               feesResp.v.status = 502 /\ ~feesResp.v.ok

\* C23, amended: every page fetch but the last one found fewer than `sample`
\* blocks collected and added at least one, so the fetches number at most
\* `sample` rounded up (for a sample that is no number: none); an ok: true
\* response reports 1 <= sampleBlocks <= sample; the 502 response is the
\* answer exactly when the loop ends without a block.
C23_PagingBounded ==
    ~feesSample.null =>
        /\ feesFetches = 0 \/ Lt(FromInt(feesFetches - 1), feesSample.v)
        /\ feesFetches <= Len(feesBlocks) + 1
        /\ feesPc = "done" => ~feesResp.null
        /\ (~feesResp.null /\ feesResp.v.ok) =>
               /\ feesResp.v.status = 200
               /\ feesResp.v.sampleBlocks.v >= 1
               /\ Le(FromInt(feesResp.v.sampleBlocks.v), feesSample.v)
        /\ (~feesResp.null /\ feesResp.v.status # 500) =>
               (Len(feesBlocks) = 0 <=> (feesResp.v.status = 502 /\ ~feesResp.v.ok))

\* A request with n = 7.5 answered ok after eight pages of one block each:
\* one fetch more than `sample`, and seven blocks reported.
C23_Witness ==
    /\ feesPc = "done"
    /\ ~feesSample.null
    /\ feesSample.v = Dec(75, -1)
    /\ feesFetches = 8
    /\ ~feesResp.null
    /\ feesResp.v.ok
    /\ feesResp.v.sampleBlocks = Some(7)

UpstreamFailed(res) ==
    /\ ~res.null
    /\ \/ res.v.rejected
       \/ ~ResponseOk(res.v)
       \/ TrimString(res.v.text) = <<>>

\* C25: /api/difficulty answers ok: true only when both upstream requests
\* succeeded with a numeric body; when either one failed, answered with an
\* HTTP error status or with an empty body, the response is ok: false with
\* an error message. The HTTP status is 200 in both cases.
C25_Original ==
    ~diffResp.null =>
        /\ diffResp.v.status = 200
        /\ diffResp.v.ok =>
               /\ ~diffRes.null /\ ~UpstreamFailed(diffRes)
               /\ ~heightRes.null /\ ~UpstreamFailed(heightRes)
               /\ IsFinite(StringToNumber(diffRes.v.text))
               /\ IsFinite(StringToNumber(heightRes.v.text))
        /\ (UpstreamFailed(diffRes) \/ UpstreamFailed(heightRes)) =>
               ~diffResp.v.ok /\ ~diffResp.v.error.null

\* C26: for each live card, the syncing flag is true in every state in which
\* a call of the card's fetcher still awaits its answer, also when a
\* periodic refresh overlaps a manual sync or another periodic refresh.
C26_Original ==
    \A c \in Cards : liveInFlight[c] > 0 => liveSyncing[c]
====
